---- MODULE Spec2Model ----
(***************************************************************************)
(* A model of the Toshi retrieval core: the chunker (rag/chunker.py), the  *)
(* vector store (rag/store.py), the retriever (rag/retriever.py), the      *)
(* SQLite cache (edgar/cache.py), the section extractor and the ingestion  *)
(* (rag/ingestion.py) and the orchestrator (rag/pipline.py).               *)
(*                                                                         *)
(* Texts are not modelled as strings.  A section text is the pair of the   *)
(* filing it was extracted from (acc) and its section name, together with  *)
(* its number of words; a chunk text is a window [start, end) of word      *)
(* positions of that section.  An f-string id "cik_year_section_index" is  *)
(* the tuple <<cik, year, section, index>>: the four fields can be read    *)
(* back from the string (cik and year hold no "_", the index is the part   *)
(* after the last "_"), so equal strings are equal tuples.  The field      *)
(* sentences of a text is "all", or "relevant" for the text that           *)
(* _extract_relevant_sentences made of it.                                 *)
(*                                                                         *)
(* The embedding model, the keyword matching and the cross-encoder are     *)
(* functions of the text that the program does not define.  The variable   *)
(* feat holds them: feat[t].emb is the embedding of text t, a unit vector  *)
(* scaled by 10, feat[t].hits the number of keywords of the query found in *)
(* t, feat[t].ce and feat[t].ce_trim the cross-encoder scores of t and of  *)
(* its relevant sentences.  Similarities are dot products, in hundredths;  *)
(* CRAG scores are in thousandths.                                         *)
(***************************************************************************)
EXTENDS Integers, Sequences, FiniteSets, TLC

VARIABLES
    \* rag/chunker.py
    ingested_list,   \* the argument of chunk_filings
    all_chunks,      \* its result
    chunk_pc,        \* "ready" before the call, "done" after it
    \* rag/store.py: the collection and, per caller, one add_chunks call
    collection,      \* the rows of _collection, at most one per id
    arg,             \* arg[p]: the list caller p passes to add_chunks
    st_pc,           \* st_pc[p]: "idle", "call", "batch" or "done"
    new_chunks,      \* new_chunks[p]: the local of that name
    batch_i,         \* batch_i[p]: the loop variable i of the batch loop
    st_entry,        \* st_entry[p]: the collection when p's first call began
    st_hist,         \* st_hist[p]: per completed call, the collection it
                     \* left and whether it raised
    \* rag/retriever.py: one retrieve call
    feat,            \* the text features, see above
    query,           \* the arguments: cik, years, and the query's features
    rt_pc,           \* "idle", "hyde", "mmr", "crag", "rerank", "return", or
                     \* "raised" when an exception left retrieve
    expanded_query,  \* the locals of retrieve
    candidates,
    filtered,
    final,
    used_fallback,   \* retrieve_mmr ran its company-only query
    citations        \* what search_filing returns: _clean_chunks(results)

chunkVars == <<ingested_list, all_chunks, chunk_pc>>
storeVars == <<collection, arg, st_pc, new_chunks, batch_i, st_entry, st_hist>>

retrVars == <<feat, query, rt_pc, expanded_query, candidates, filtered, final,
              used_fallback, citations>>

\* edgar/cache.py: the tables of cache.db, the wall clock in half seconds, the
\* outcome of the last call, and per table and key the last set_cached issued
VARIABLES db, clock, cache_ret, put_log

cacheVars == <<db, clock, cache_ret, put_log>>

\* rag/store.py _mmr_select called on its own: the arguments, the list it
\* returned, and "idle", "call" or "done"
VARIABLES mmr_in, mmr_out, mmr_pc

mmrVars == <<mmr_in, mmr_out, mmr_pc>>

\* rag/ingestion.py _extract_sections called on its own: the clean text, the
\* dict it returned, and "idle", "call" or "done"
VARIABLES doc, sections_out, ex_pc

extractVars == <<doc, sections_out, ex_pc>>

\* rag/pipline.py search_filing, called in sequence for one company
VARIABLES
    upstream,        \* the filings of the company EDGAR lists, newest first
    pl_pc,           \* where the current search_filing call is
    pl_call,         \* the current call: arguments, locals, and what it did
    pl_queue,        \* ingest_recent_filings: the filings still to ingest
    pl_results,      \* ingest_recent_filings: results
    pl_hist          \* the calls that ended, oldest first

plVars == <<upstream, pl_pc, pl_call, pl_queue, pl_results, pl_hist>>

\* readers of the index: the rows a chunk_exists or a search has returned
\* since the last clear_company of their company, and the last operation
VARIABLES seen, last_op

viewVars == <<seen, last_op>>

\* tools/search.py search_company: "idle" or "looked" (get_cached has
\* returned), the name of the running request, and for every request that
\* ended what it did
VARIABLES tool_pc, tool_req, tool_log

toolVars == <<tool_pc, tool_req, tool_log>>

vars == <<chunkVars, storeVars, retrVars, cacheVars, mmrVars, extractVars, plVars, viewVars, toolVars>>

Min(a, b) == IF a < b THEN a ELSE b
Max(a, b) == IF a > b THEN a ELSE b

(***************************************************************************)
(* Bounds of the model.                                                    *)
(***************************************************************************)
MaxWords == 1200     \* longest section, in words, of the one-section inputs
MaxFilings == 2      \* longest list given to chunk_filings
MaxLen == 5          \* longest list given to add_chunks
\* store.py:80 sets batch_size = 100.  The model scales it down so that a list
\* of MaxLen chunks spans several batches.
BatchSize == 2
MaxCalls == 2        \* add_chunks calls a caller makes in sequence
MaxCragCand == 4     \* longest list given to crag_filter
MaxRerankCand == 6   \* longest list given to rerank
MaxSeed == 2         \* feature tables of the retrieval runs: 0..MaxSeed
MaxSkew == 2         \* half seconds by which the sampled times exceed whole hours
MaxMmrCand == 3      \* longest candidate list given to _mmr_select on its own
MaxDocLen == 5       \* most pieces of a filing text given to _extract_sections
MaxUpstream == 2     \* most filings EDGAR lists for the company
MaxSearches == 2     \* search_filing calls made in sequence
MaxYearsArg == 2     \* largest years argument of search_filing
MaxIngest == 3       \* add_chunks calls of one ingesting caller in a retrieval run

Callers == {1, 2}

Ciks == {1, 2}
Years == {2023, 2024}
FilingTypes == {"10-K", "10-Q"}
\* two of the four keys of SECTION_MARKERS, in the order of the dict
Sections == <<"risk_factors", "mda">>
SectionSet == {Sections[i] : i \in 1..Len(Sections)}

(***************************************************************************)
(* The state of a component that a specification does not exercise.        *)
(***************************************************************************)
ChunkIdle ==
    /\ ingested_list = <<>>
    /\ all_chunks = <<>>
    /\ chunk_pc = "idle"

StoreIdle ==
    /\ collection = {}
    /\ arg = [p \in Callers |-> <<>>]
    /\ st_pc = [p \in Callers |-> "idle"]
    /\ new_chunks = [p \in Callers |-> <<>>]
    /\ batch_i = [p \in Callers |-> 0]
    /\ st_entry = [p \in Callers |-> {}]
    /\ st_hist = [p \in Callers |-> <<>>]

RetrIdle ==
    /\ feat = <<>>
    /\ query = [cik |-> 0]
    /\ rt_pc = "idle"
    /\ expanded_query = [emb |-> <<0, 0>>]
    /\ candidates = <<>>
    /\ filtered = <<>>
    /\ final = <<>>
    /\ used_fallback = FALSE
    /\ citations = <<>>

\* cache.db after init_db: three empty tables
TableNames == {"company_search", "company_submissions", "company_facts"}

init_db == [t \in TableNames |-> <<>>]

NoOp == [op |-> "none", cik |-> 0, id |-> <<>>, found |-> FALSE]

ViewIdle ==
    /\ seen = {}
    /\ last_op = NoOp

ToolIdle ==
    /\ tool_pc = "idle"
    /\ tool_req = ""
    /\ tool_log = <<>>

PlIdle ==
    /\ upstream = <<>>
    /\ pl_pc = "off"
    /\ pl_call = <<>>
    /\ pl_queue = <<>>
    /\ pl_results = <<>>
    /\ pl_hist = <<>>

ExtractIdle ==
    /\ doc = <<>>
    /\ sections_out = <<>>
    /\ ex_pc = "idle"

MmrIdle ==
    /\ mmr_in = <<>>
    /\ mmr_out = <<>>
    /\ mmr_pc = "idle"

CacheIdle ==
    /\ db = init_db
    /\ clock = 0
    /\ cache_ret = [ op |-> "none", table |-> "", key |-> "", max_age |-> 0,
                     at |-> 0, outcome |-> "None", value |-> "" ]
    /\ put_log = <<>>

(***************************************************************************)
(* rag/chunker.py                                                          *)
(***************************************************************************)
CHUNK_SIZE_WORDS == 400
OVERLAP_WORDS == 50
MIN_CHUNK_WORDS == 50

\* chunk_id = f"{cik}_{year}_{section_name}_{chunk_index}"
ChunkId(cik, year, section_name, chunk_index) ==
    <<cik, year, section_name, chunk_index>>

\* the dict appended by _chunk_section; text is words[start:end] of the section
\* raw_submissions["name"] of the company
CompanyName(cik) == <<"name", cik>>

\* len(text) of a section of n words: the words are separated by at least one
\* blank and have at least one character each, so 2n - 1 is the length of the
\* shortest text of n words; parent_section.chars is the number of leading
\* characters of the section text the value holds
SectionChars(n) == Max(0, 2 * n - 1)

MkChunk(f, section_name, chunk_index, start, end) ==
    [ chunk_id    |-> ChunkId(f.cik, f.year, section_name, chunk_index),
      company     |-> CompanyName(f.cik),
      parent_section |-> [acc |-> f.acc, section |-> section_name,
                          chars |-> SectionChars(f.words[section_name])],
      cik         |-> f.cik,
      year        |-> f.year,
      filing_type |-> f.filing_type,
      section     |-> section_name,
      text        |-> [acc |-> f.acc, section |-> section_name,
                       start |-> start, end |-> end, sentences |-> "all"] ]

\* len(words[start:end]) for a list of n words
SliceLen(n, start, end) == Max(0, Min(end, n) - Max(0, start))

\* the step of the window: start += CHUNK_SIZE_WORDS - OVERLAP_WORDS
StrideNoOverlap == CHUNK_SIZE_WORDS
Stride == CHUNK_SIZE_WORDS - OVERLAP_WORDS

\* if len(chunk_words) < MIN_CHUNK_WORDS: break
TooShortNever(len) == FALSE
TooShortOffByOne(len) == len <= MIN_CHUNK_WORDS
TooShort(len) == len < MIN_CHUNK_WORDS

\* the while loop of _chunk_section over a section of n words
RECURSIVE ChunkLoop(_, _, _, _, _)
ChunkLoop(f, section_name, n, start, chunk_index) ==
    IF ~(start < n) THEN <<>>
    ELSE LET end == start + CHUNK_SIZE_WORDS
             len == SliceLen(n, start, end)
         IN IF TooShort(len) THEN <<>>
            ELSE <<MkChunk(f, section_name, chunk_index, start, start + len)>>
                 \o ChunkLoop(f, section_name, n, start + Stride, chunk_index + 1)

chunk_section(f, section_name) ==
    ChunkLoop(f, section_name, f.words[section_name], 0, 0)

\* the loop of chunk_filing over sections.items(), from section k on
RECURSIVE ChunkSectionsFrom(_, _)
ChunkSectionsFrom(f, k) ==
    IF k > Len(Sections) THEN <<>>
    ELSE LET s == Sections[k]
         IN IF f.words[s] = 0 \/ f.words[s] < MIN_CHUNK_WORDS
            THEN ChunkSectionsFrom(f, k + 1)
            ELSE chunk_section(f, s) \o ChunkSectionsFrom(f, k + 1)

chunk_filing(f) == ChunkSectionsFrom(f, 1)

RECURSIVE chunk_filings(_)
chunk_filings(list) ==
    IF list = <<>> THEN <<>>
    ELSE chunk_filing(Head(list)) \o chunk_filings(Tail(list))

\* ---- inputs of the chunker ----
\* a filing as ingest_filing returns it: words[s] is len(sections[s].split())
Filing(cik, acc, year, filing_type, words) ==
    [cik |-> cik, acc |-> acc, year |-> year, filing_type |-> filing_type,
     words |-> words]

\* one filing with one section of every length up to MaxWords
SectionInputs ==
    { << Filing(1, 1, 2024, "10-K",
                [s \in SectionSet |-> IF s = Sections[1] THEN n ELSE 0]) >> :
      n \in 0..MaxWords }

\* word counts of the two sections of a filing: none, too short or empty,
\* exactly MIN_CHUNK_WORDS, exactly CHUNK_SIZE_WORDS
SampleSections ==
    { [s \in SectionSet |-> IF s = Sections[1] THEN w[1] ELSE w[2]] :
      w \in {<<0, 0>>, <<50, 50>>, <<400, 50>>, <<0, 400>>} }

FilingAttrs == [year : Years, filing_type : FilingTypes, words : SampleSections]

\* every list of up to MaxFilings filings of one company; acc is the position
FilingInputs ==
    UNION { { [i \in 1..k |-> Filing(c, i, g[i].year, g[i].filing_type, g[i].words)] :
              g \in [1..k -> FilingAttrs] } :
            <<c, k>> \in Ciks \X (0..MaxFilings) }

(***************************************************************************)
(* rag/store.py.  _collection is a chromadb collection.  Its add() raises  *)
(* DuplicateIDError, before writing anything, when the ids of one call are *)
(* not pairwise different, and skips an id that is already stored.  A row  *)
(* holds the id, the document text and the metadata; the stored vector is  *)
(* the embedding of the text, a function of the text, and is not a field.  *)
(***************************************************************************)
\* c.get("parent_section", "")[:2000]
ParentSectionCap == 2000
FirstChars(parent_section, n) ==
    [parent_section EXCEPT !.chars = Min(parent_section.chars, n)]

\* the row add_chunks builds for chunk c: ids, documents, metadatas
Entry(c) ==
    [ chunk_id    |-> c.chunk_id,
      text        |-> c.text,
      company     |-> c.company,
      parent_section |-> FirstChars(c.parent_section, ParentSectionCap),
      cik         |-> c.cik,
      year        |-> c.year,
      filing_type |-> c.filing_type,
      section     |-> c.section ]

Ids(coll) == {e.chunk_id : e \in coll}

\* _collection.count()
Count(coll) == Cardinality(coll)

\* chunk_exists: len(_collection.get(ids=[chunk_id])["ids"]) > 0
chunk_exists(coll, chunk_id) == chunk_id \in Ids(coll)

\* new_chunks = [c for c in chunks if not chunk_exists(c["chunk_id"])]
FilterNothing(coll, chunks) == chunks
FilterNew(coll, chunks) ==
    SelectSeq(chunks, LAMBDA c : ~chunk_exists(coll, c.chunk_id))

\* chromadb validate_ids: the ids of one add() must be unique
HasDuplicateIds(batch) ==
    \E j, k \in 1..Len(batch) : j # k /\ batch[j].chunk_id = batch[k].chunk_id

\* _collection.add(ids, embeddings, metadatas, documents) of a valid batch
CollectionAddOverwrite(coll, batch) ==
    {e \in coll : \A k \in 1..Len(batch) : batch[k].chunk_id # e.chunk_id}
        \cup {Entry(batch[k]) : k \in 1..Len(batch)}
CollectionAdd(coll, batch) ==
    coll \cup {Entry(batch[k]) :
                 k \in {j \in 1..Len(batch) : ~chunk_exists(coll, batch[j].chunk_id)}}

\* ids[i:i + batch_size]
\* a batch that holds the first chunk of the slice only
BatchAtFirst(list, i) == SubSeq(list, i + 1, i + 1)
BatchAt(list, i) == SubSeq(list, i + 1, Min(i + BatchSize, Len(list)))

\* the record of a completed call
CallDone(p, coll, err) ==
    st_hist' = [st_hist EXCEPT ![p] = Append(@, [coll |-> coll, raised |-> err])]

\* add_chunks up to the batch loop: the empty-list return, the filter, the
\* nothing-new return
AddChunksBegin(p) ==
    /\ st_pc[p] = "call"
    /\ LET nc == FilterNew(collection, arg[p])
       IN IF arg[p] = <<>> \/ nc = <<>>
          THEN /\ st_pc' = [st_pc EXCEPT ![p] = "done"]
               /\ CallDone(p, collection, FALSE)
               /\ UNCHANGED <<new_chunks, batch_i>>
          ELSE /\ st_pc' = [st_pc EXCEPT ![p] = "batch"]
               /\ new_chunks' = [new_chunks EXCEPT ![p] = nc]
               /\ batch_i' = [batch_i EXCEPT ![p] = 0]
               /\ UNCHANGED st_hist
    /\ UNCHANGED <<collection, arg, st_entry>>

\* one iteration of the batch loop: one _collection.add
AddBatch(p) ==
    /\ st_pc[p] = "batch"
    /\ LET batch == BatchAt(new_chunks[p], batch_i[p])
           last  == batch_i[p] + BatchSize >= Len(new_chunks[p])
       IN IF HasDuplicateIds(batch)
          THEN \* DuplicateIDError leaves add_chunks
               /\ st_pc' = [st_pc EXCEPT ![p] = "done"]
               /\ CallDone(p, collection, TRUE)
               /\ UNCHANGED <<collection, batch_i>>
          ELSE /\ collection' = CollectionAdd(collection, batch)
               /\ batch_i' = [batch_i EXCEPT ![p] = @ + BatchSize]
               /\ IF last
                  THEN /\ st_pc' = [st_pc EXCEPT ![p] = "done"]
                       /\ CallDone(p, collection', FALSE)
                  ELSE UNCHANGED <<st_pc, st_hist>>
    /\ UNCHANGED <<arg, new_chunks, st_entry>>

\* the caller calls add_chunks again with the same list
AddChunksAgain(p) ==
    /\ st_pc[p] = "done"
    /\ Len(st_hist[p]) < MaxCalls
    /\ st_pc' = [st_pc EXCEPT ![p] = "call"]
    /\ new_chunks' = [new_chunks EXCEPT ![p] = <<>>]
    /\ batch_i' = [batch_i EXCEPT ![p] = 0]
    /\ UNCHANGED <<collection, arg, st_entry, st_hist>>

\* ---- inputs of the store ----
\* two filings of company 1 dated in the same year, and one of company 2
StoreFilings ==
    << Filing(1, 1, 2023, "10-K", [s \in SectionSet |-> 750]),
       Filing(1, 2, 2023, "10-K", [s \in SectionSet |-> 750]),
       Filing(2, 3, 2023, "10-K", [s \in SectionSet |-> 750]) >>

\* chunks of these filings: the first chunk of both filings of company 1 (one
\* id, two texts), the second chunk of the first, the first chunk of company 2
StoreChunks ==
    { chunk_filing(StoreFilings[1])[1], chunk_filing(StoreFilings[2])[1],
      chunk_filing(StoreFilings[1])[2], chunk_filing(StoreFilings[3])[1] }

ChunkLists(S, n) == UNION {[1..k -> S] : k \in 0..n}

\* the collections over these chunks: chunk_id is the primary key
Collections(S) ==
    {coll \in SUBSET {Entry(c) : c \in S} :
        \A e1, e2 \in coll : e1.chunk_id = e2.chunk_id => e1 = e2}

\* caller 1 is about to call add_chunks(list) on any collection
InitStore ==
    /\ collection \in Collections(StoreChunks)
    /\ \E list \in ChunkLists(StoreChunks, MaxLen) :
           arg = [p \in Callers |-> IF p = 1 THEN list ELSE <<>>]
    /\ st_pc = [p \in Callers |-> IF p = 1 THEN "call" ELSE "idle"]
    /\ new_chunks = [p \in Callers |-> <<>>]
    /\ batch_i = [p \in Callers |-> 0]
    /\ st_entry = [p \in Callers |-> collection]
    /\ st_hist = [p \in Callers |-> <<>>]
    /\ ChunkIdle
    /\ RetrIdle
    /\ CacheIdle
    /\ MmrIdle
    /\ ExtractIdle
    /\ PlIdle
    /\ ViewIdle
    /\ ToolIdle

NextStore ==
    \/ AddChunksBegin(1) /\ UNCHANGED <<chunkVars, retrVars, cacheVars, mmrVars, extractVars, plVars, viewVars, toolVars>>
    \/ AddBatch(1) /\ UNCHANGED <<chunkVars, retrVars, cacheVars, mmrVars, extractVars, plVars, viewVars, toolVars>>
    \/ AddChunksAgain(1) /\ UNCHANGED <<chunkVars, retrVars, cacheVars, mmrVars, extractVars, plVars, viewVars, toolVars>>

SpecStore == InitStore /\ [][NextStore]_vars

InitChunk ==
    /\ ingested_list \in SectionInputs \cup FilingInputs
    /\ all_chunks = <<>>
    /\ chunk_pc = "ready"
    /\ StoreIdle
    /\ RetrIdle
    /\ CacheIdle
    /\ MmrIdle
    /\ ExtractIdle
    /\ PlIdle
    /\ ViewIdle
    /\ ToolIdle

\* all_chunks = chunker.chunk_filings(ingested_filings)
ChunkFilings ==
    /\ chunk_pc = "ready"
    /\ all_chunks' = chunk_filings(ingested_list)
    /\ chunk_pc' = "done"
    /\ UNCHANGED <<ingested_list, storeVars, retrVars, cacheVars, mmrVars, extractVars, plVars, viewVars, toolVars>>

NextChunk == ChunkFilings

SpecChunk == InitChunk /\ [][NextChunk]_vars

(***************************************************************************)
(* rag/embedder.py, as far as the retriever uses it.                       *)
(***************************************************************************)
Dot(u, v) == u[1] * v[1] + u[2] * v[2]

\* the text a trimmed text was made of
BaseText(t) == [t EXCEPT !.sentences = "all"]

\* embedder.embed_text of a chunk text
embed_text(t) == feat[BaseText(t)].emb

\* an optional key of a chunk dict: <<>> when the key is absent, <<v>> when set
Unset == <<>>
Set(v) == <<v>>

(***************************************************************************)
(* rag/store.py: search_mmr and its helpers                                *)
(***************************************************************************)
N_CANDIDATES == 50

\* _build_filter: one equality condition per argument that is given
\* (None is 0); the conditions are joined by $and
BuildFilterYearOnly(cik, year) ==
    IF year # 0 THEN {<<"year", year>>} ELSE {}
build_filter(cik, year) ==
    (IF cik # 0 THEN {<<"cik", cik>>} ELSE {})
        \cup (IF year # 0 THEN {<<"year", year>>} ELSE {})

\* a row satisfies the where clause of _collection.query
Matches(e, where) == \A cond \in where : e[cond[1]] = cond[2]

\* _parse_results: the dict of one returned row; similarity is 1 - distance,
\* the cosine of the stored vector and the query vector
parse_result(e, query_embedding) ==
    [ chunk_id     |-> e.chunk_id,
      text         |-> e.text,
      company      |-> e.company,
      parent_section |-> e.parent_section,
      embedding    |-> embed_text(e.text),
      cik          |-> e.cik,
      year         |-> e.year,
      filing_type  |-> e.filing_type,
      section      |-> e.section,
      similarity   |-> Dot(embed_text(e.text), query_embedding),
      crag_trimmed |-> Unset,
      rerank_score |-> Unset ]

\* _collection.query(n_results = n, where): the n nearest matching rows,
\* nearest first; rows at equal distance come in any order
RECURSIVE Nearest(_, _, _)
Nearest(M, query_embedding, k) ==
    IF k = 0 \/ M = {} THEN {<<>>}
    ELSE LET sim(e) == Dot(embed_text(e.text), query_embedding)
         IN UNION { { <<e>> \o r : r \in Nearest(M \ {e}, query_embedding, k - 1) } :
                    e \in {x \in M : \A y \in M : sim(x) >= sim(y)} }

QueryOutcomes(coll, query_embedding, n, where) ==
    Nearest({e \in coll : Matches(e, where)}, query_embedding, n)

\* the weights of relevance and diversity_penalty exchanged
MmrScoreSwapped(c, selected, query_embedding, lambda10) ==
    LET relevance == Dot(c.embedding, query_embedding)
        sims == {Dot(c.embedding, selected[i].embedding) : i \in 1..Len(selected)}
        diversity_penalty ==
            IF selected = <<>> THEN 0
            ELSE CHOOSE m \in sims : \A x \in sims : m >= x
    IN (10 - lambda10) * relevance - lambda10 * diversity_penalty

\* score = mmr_lambda * relevance - (1 - mmr_lambda) * diversity_penalty,
\* times 10, for mmr_lambda = lambda10 / 10
MmrScore(c, selected, query_embedding, lambda10) ==
    LET relevance == Dot(c.embedding, query_embedding)
        sims == {Dot(c.embedding, selected[i].embedding) : i \in 1..Len(selected)}
        diversity_penalty ==
            IF selected = <<>> THEN 0
            ELSE CHOOSE m \in sims : \A x \in sims : m >= x
    IN lambda10 * relevance - (10 - lambda10) * diversity_penalty

RemoveAt(list, k) == SubSeq(list, 1, k - 1) \o SubSeq(list, k + 1, Len(list))

\* the loop keeping the last of the candidates of highest score
RECURSIVE MmrLoopLastBest(_, _, _, _, _)
MmrLoopLastBest(selected, remaining, query_embedding, n_results, lambda10) ==
    IF remaining = <<>> \/ Len(selected) >= n_results THEN selected
    ELSE LET sc(i) == MmrScore(remaining[i], selected, query_embedding, lambda10)
             best == CHOOSE i \in 1..Len(remaining) :
                         /\ \A j \in 1..Len(remaining) : sc(i) >= sc(j)
                         /\ \A j \in (i + 1)..Len(remaining) : sc(j) < sc(i)
         IN MmrLoopLastBest(Append(selected, remaining[best]),
                            RemoveAt(remaining, best),
                            query_embedding, n_results, lambda10)

\* the while loop of _mmr_select: score > best_score keeps the first of the
\* candidates of highest score
RECURSIVE MmrLoop(_, _, _, _, _)
MmrLoop(selected, remaining, query_embedding, n_results, lambda10) ==
    IF remaining = <<>> \/ Len(selected) >= n_results THEN selected
    ELSE LET sc(i) == MmrScore(remaining[i], selected, query_embedding, lambda10)
             best == CHOOSE i \in 1..Len(remaining) :
                         /\ \A j \in 1..Len(remaining) : sc(i) >= sc(j)
                         /\ \A j \in 1..(i - 1) : sc(j) < sc(i)
         IN MmrLoop(Append(selected, remaining[best]), RemoveAt(remaining, best),
                    query_embedding, n_results, lambda10)

\* chunk.pop("embedding", None)
PopEmbedding(c) == [k \in DOMAIN c \ {"embedding"} |-> c[k]]

\* _mmr_select: the selected candidates, without their embedding
mmr_select(query_embedding, cands, n_results, lambda10) ==
    LET selected == MmrLoop(<<>>, cands, query_embedding, n_results, lambda10)
    IN [i \in 1..Len(selected) |-> PopEmbedding(selected[i])]

\* search_mmr: the lists it can return
search_mmr(coll, query_embedding, cik, year, n_results, lambda10) ==
    LET where == build_filter(cik, year)
        n_candidates == Min(N_CANDIDATES, Count(coll))
    IN IF n_candidates = 0 THEN {<<>>}
       ELSE { mmr_select(query_embedding,
                         [i \in 1..Len(r) |-> parse_result(r[i], query_embedding)],
                         n_results, lambda10) :
              r \in QueryOutcomes(coll, query_embedding, n_candidates, where) }

(***************************************************************************)
(* rag/retriever.py                                                        *)
(***************************************************************************)
CRAG_CORRECT == 700
CRAG_AMBIGUOUS == 300
CRAG_RELAXED_CORRECT == 400
CRAG_RELAXED_AMBIGUOUS == 150
CRAG_FALLBACK == 3
TOP_K == 5
N_PER_YEAR == 10
N_RESULTS == 20
MMR_LAMBDA == 7

\* hyde_expand: the query followed by at most two clauses and its keywords;
\* the string is represented by its embedding
hyde_expand(q) == [emb |-> q.xemb]

\* the loop of retrieve_mmr over years, from year k on: the lists it can build
RECURSIVE PerYear(_, _, _, _, _)
PerYear(coll, query_embedding, cik, years, k) ==
    IF k > Len(years) THEN {<<>>}
    ELSE { a \o b :
             a \in search_mmr(coll, query_embedding, cik, years[k],
                              N_PER_YEAR, MMR_LAMBDA),
             b \in PerYear(coll, query_embedding, cik, years, k + 1) }

\* all_candidates[:n_results]
Truncate(list, n) == SubSeq(list, 1, Min(n, Len(list)))

\* retrieve_mmr: the candidate lists it can return, and whether the
\* company-only query was used
retrieve_mmr(coll, expanded, cik, years) ==
    UNION { IF a # <<>>
            THEN {[cands |-> Truncate(a, N_RESULTS), fallback |-> FALSE]}
            ELSE {[cands |-> Truncate(b, N_RESULTS), fallback |-> TRUE] :
                    b \in search_mmr(coll, expanded.emb, cik, 0,
                                     N_RESULTS, MMR_LAMBDA)} :
            a \in PerYear(coll, expanded.emb, cik, years, 1) }

\* the similarity taken to the expanded query instead of the raw one
CragScoreExpanded(chunk, q) ==
    LET keyword_score400 ==
            IF q.nkw > 0 THEN (400 * feat[BaseText(chunk.text)].hits) \div q.nkw
            ELSE 200
        similarity == Max(0, Min(100, Dot(embed_text(chunk.text), q.xemb)))
    IN keyword_score400 + 6 * similarity

\* _crag_score: 0.4 * keyword_score + 0.6 * similarity, in thousandths;
\* keyword_score is hits / len(query_keywords), or 0.5 without keywords, and
\* similarity is clamped to [0, 1]
crag_score(chunk, q) ==
    LET keyword_score400 ==
            IF q.nkw > 0 THEN (400 * feat[BaseText(chunk.text)].hits) \div q.nkw
            ELSE 200
        similarity == Max(0, Min(100, Dot(embed_text(chunk.text), q.emb)))
    IN keyword_score400 + 6 * similarity

\* _extract_relevant_sentences returns a non-empty string exactly when some
\* sentence, hence the text, holds a keyword
HasRelevantSentence(chunk) == feat[BaseText(chunk.text)].hits > 0

\* the text reduced, the flag left out
TrimChunkNoFlag(chunk) ==
    [chunk EXCEPT !.text = [@ EXCEPT !.sentences = "relevant"]]

\* trimmed_chunk = chunk.copy() with the text reduced to its sentences that
\* hold a keyword and crag_trimmed = True
TrimChunk(chunk) ==
    [chunk EXCEPT !.text = [@ EXCEPT !.sentences = "relevant"],
                  !.crag_trimmed = Set(TRUE)]

\* _apply_crag_thresholds over scored, a list of <<score, chunk>>
RECURSIVE apply_crag_thresholds(_, _, _)
apply_crag_thresholds(scored, correct_threshold, ambiguous_threshold) ==
    IF scored = <<>> THEN <<>>
    ELSE LET score == Head(scored)[1]
             chunk == Head(scored)[2]
             rest  == apply_crag_thresholds(Tail(scored), correct_threshold,
                                            ambiguous_threshold)
         IN IF score >= correct_threshold THEN <<chunk>> \o rest
            ELSE IF score >= ambiguous_threshold /\ HasRelevantSentence(chunk)
                 THEN <<TrimChunk(chunk)>> \o rest
                 ELSE rest

\* if not result: result = [c for _, c in scored[:3]]
CragLastResortNone(scored, result) == result
CragLastResort(scored, result) ==
    IF result = <<>>
    THEN [i \in 1..Min(CRAG_FALLBACK, Len(scored)) |-> scored[i][2]]
    ELSE result

crag_filter(q, chunks) ==
    IF chunks = <<>> THEN <<>>
    ELSE LET scored == [i \in 1..Len(chunks) |-> <<crag_score(chunks[i], q), chunks[i]>>]
             strict == apply_crag_thresholds(scored, CRAG_CORRECT, CRAG_AMBIGUOUS)
             result == IF Len(strict) < 2
                       THEN apply_crag_thresholds(scored, CRAG_RELAXED_CORRECT,
                                                  CRAG_RELAXED_AMBIGUOUS)
                       ELSE strict
         IN CragLastResort(scored, result)

\* _reranker.predict on (query, chunk["text"])
ce_score(chunk) ==
    IF chunk.text.sentences = "relevant" THEN feat[BaseText(chunk.text)].ce_trim
    ELSE feat[chunk.text].ce

\* sorted(zip(scores, chunks), key = score, reverse = True): a stable sort
RECURSIVE InsertDesc(_, _)
InsertDesc(sorted, x) ==
    IF sorted = <<>> THEN <<x>>
    ELSE IF Head(sorted)[1] >= x[1] THEN <<Head(sorted)>> \o InsertDesc(Tail(sorted), x)
    ELSE <<x>> \o sorted

RECURSIVE SortDesc(_)
SortDesc(pairs) ==
    IF pairs = <<>> THEN <<>>
    ELSE InsertDesc(SortDesc(SubSeq(pairs, 1, Len(pairs) - 1)), pairs[Len(pairs)])

\* scored_chunks[:TOP_K]
TopSliceAll(list) == list
TopSlice(list) == SubSeq(list, 1, Min(TOP_K, Len(list)))

rerank(q, chunks) ==
    IF chunks = <<>> THEN <<>>
    ELSE IF Len(chunks) = 1 THEN chunks
    ELSE LET scored_chunks ==
                 SortDesc([i \in 1..Len(chunks) |-> <<ce_score(chunks[i]), chunks[i]>>])
             top == TopSlice(scored_chunks)
         IN [i \in 1..Len(top) |-> [top[i][2] EXCEPT !.rerank_score = Set(top[i][1])]]

\* dict.get(key, default)
GetOr(opt, default) == IF opt = Unset THEN default ELSE opt[1]

\* the list handed to the caller as retrieve returned it
CleanChunksNothing(chunks) == chunks

\* rag/pipline.py _clean_chunks
clean_chunks(chunks) ==
    [i \in 1..Len(chunks) |->
        [ text         |-> chunks[i].text,
          company      |-> chunks[i].company,
          cik          |-> chunks[i].cik,
          year         |-> chunks[i].year,
          filing_type  |-> chunks[i].filing_type,
          section      |-> chunks[i].section,
          rerank_score |-> GetOr(chunks[i].rerank_score, 0),
          crag_trimmed |-> GetOr(chunks[i].crag_trimmed, FALSE) ]]

\* ---- the steps of retrieve ----
\* expanded_query = hyde_expand(query).  query.lower() raises AttributeError
\* when query is not a str (None, say); nothing in hyde_expand, retrieve or
\* search_filing catches it
Hyde ==
    /\ rt_pc = "hyde"
    /\ IF query.is_str
       THEN /\ expanded_query' = hyde_expand(query)
            /\ rt_pc' = "mmr"
       ELSE /\ rt_pc' = "raised"
            /\ UNCHANGED expanded_query
    /\ UNCHANGED <<feat, query, candidates, filtered, final, used_fallback, citations>>

\* candidates = retrieve_mmr(...); if not candidates: return []
RetrieveMmr ==
    /\ rt_pc = "mmr"
    /\ \E out \in retrieve_mmr(collection, expanded_query, query.cik, query.years) :
           /\ candidates' = out.cands
           /\ used_fallback' = out.fallback
           /\ IF out.cands = <<>>
              THEN /\ final' = <<>>
                   /\ citations' = clean_chunks(<<>>)
                   /\ rt_pc' = "return"
              ELSE /\ rt_pc' = "crag"
                   /\ UNCHANGED <<final, citations>>
    /\ UNCHANGED <<feat, query, expanded_query, filtered>>

\* filtered = crag_filter(query, candidates)
CragFilter ==
    /\ rt_pc = "crag"
    /\ filtered' = crag_filter(query, candidates)
    /\ rt_pc' = "rerank"
    /\ UNCHANGED <<feat, query, expanded_query, candidates, final, used_fallback,
                   citations>>

\* final = rerank(query, filtered); return final, which search_filing cleans
Rerank ==
    /\ rt_pc = "rerank"
    /\ final' = rerank(query, filtered)
    /\ citations' = clean_chunks(final')
    /\ rt_pc' = "return"
    /\ UNCHANGED <<feat, query, expanded_query, candidates, filtered, used_fallback>>

\* ---- crag_filter on its own ----
\* the chunks of one filing, as retrieve_mmr would hand them over
CragFiling == Filing(1, 1, 2024, "10-K", [s \in SectionSet |-> 750])

CragChunks == chunk_filing(CragFiling)

\* unit vectors times 10; the query embeds to <<8, 6>>
QueryEmb == <<8, 6>>
CragEmbs == {<<8, 6>>, <<0, 10>>, <<6, -8>>}
KeywordCounts == {0, 2}

Candidate(c, query_embedding) ==
    PopEmbedding(parse_result(Entry(c), query_embedding))

\* any query, any 0..MaxCragCand candidates, any embedding and keyword hits
InitCrag ==
    /\ \E n \in 0..Min(MaxCragCand, Len(CragChunks)), nkw \in KeywordCounts :
         /\ query = [cik |-> 1, years |-> <<2024>>, nkw |-> nkw, is_str |-> TRUE,
                     emb |-> QueryEmb, xemb |-> QueryEmb]
         /\ feat \in [{CragChunks[i].text : i \in 1..n} ->
                        [emb : CragEmbs, hits : 0..nkw, ce : {0}, ce_trim : {0}]]
         /\ candidates = [i \in 1..n |-> Candidate(CragChunks[i], QueryEmb)]
    /\ expanded_query = hyde_expand(query)
    /\ rt_pc = "crag"
    /\ filtered = <<>>
    /\ final = <<>>
    /\ used_fallback = FALSE
    /\ citations = <<>>
    /\ ChunkIdle
    /\ StoreIdle
    /\ CacheIdle
    /\ MmrIdle
    /\ ExtractIdle
    /\ PlIdle
    /\ ViewIdle
    /\ ToolIdle

NextCrag == CragFilter /\ UNCHANGED <<chunkVars, storeVars, cacheVars, mmrVars, extractVars, plVars, viewVars, toolVars>>

SpecCrag == InitCrag /\ [][NextCrag]_vars

\* ---- rerank on its own ----
RerankFilings ==
    << Filing(1, 1, 2024, "10-K", [s \in SectionSet |-> 750]),
       Filing(1, 2, 2023, "10-K", [s \in SectionSet |-> 750]) >>

RerankChunks == chunk_filings(RerankFilings)

CeValues == {1, 2}

\* any 0..MaxRerankCand chunks that survived CRAG, whole or trimmed, with any
\* cross-encoder scores
InitRerank ==
    /\ query = [cik |-> 1, years |-> <<2024, 2023>>, nkw |-> 2, is_str |-> TRUE,
                emb |-> QueryEmb, xemb |-> QueryEmb]
    /\ \E n \in 0..Min(MaxRerankCand, Len(RerankChunks)) :
         /\ feat \in [{RerankChunks[i].text : i \in 1..n} ->
                        [emb : {QueryEmb}, hits : {1}, ce : CeValues, ce_trim : {1}]]
         /\ candidates = [i \in 1..n |-> Candidate(RerankChunks[i], QueryEmb)]
         /\ \E trimmed \in SUBSET (1..n) :
              filtered = [i \in 1..n |-> IF i \in trimmed
                                         THEN TrimChunk(candidates[i])
                                         ELSE candidates[i]]
    /\ expanded_query = hyde_expand(query)
    /\ rt_pc = "rerank"
    /\ final = <<>>
    /\ used_fallback = FALSE
    /\ citations = <<>>
    /\ ChunkIdle
    /\ StoreIdle
    /\ CacheIdle
    /\ MmrIdle
    /\ ExtractIdle
    /\ PlIdle
    /\ ViewIdle
    /\ ToolIdle

NextRerank == Rerank /\ UNCHANGED <<chunkVars, storeVars, cacheVars, mmrVars, extractVars, plVars, viewVars, toolVars>>

SpecRerank == InitRerank /\ [][NextRerank]_vars

\* ---- search_filing: ingestion into the index and retrieve, interleaved ----
\* filings of two companies; one section of 400 words gives two chunks each
RetrWords == [s \in SectionSet |-> IF s = Sections[1] THEN 400 ELSE 0]

RetrFilings ==
    << Filing(1, 1, 2024, "10-K", RetrWords),
       Filing(1, 2, 2023, "10-K", RetrWords),
       Filing(2, 3, 2024, "10-K", RetrWords) >>

RetrChunks == chunk_filings(RetrFilings)

RetrEmbs == <<QueryEmb, <<10, 0>>, <<0, 10>>>>

\* embeddings, keyword hits and cross-encoder scores of the chunk texts, one
\* assignment per seed
FeatOf(seed, nkw) ==
    [t \in {RetrChunks[i].text : i \in 1..Len(RetrChunks)} |->
        LET i == CHOOSE j \in 1..Len(RetrChunks) : RetrChunks[j].text = t
        IN [ emb     |-> RetrEmbs[((i + seed) % Len(RetrEmbs)) + 1],
             hits    |-> Min(nkw, (i * (seed + 1)) % 3),
             ce      |-> (i * (seed + 2)) % 3,
             ce_trim |-> (i + seed) % 2 ]]

YearLists == {<<2024>>, <<2024, 2023>>}

\* pipline.py _ingest_and_store: store.add_chunks(chunk_filing(filing))
IngestAndStore(p, f) ==
    /\ st_pc[p] \in {"idle", "done"}
    /\ Len(st_hist[p]) < MaxIngest
    /\ arg' = [arg EXCEPT ![p] = chunk_filing(f)]
    /\ st_pc' = [st_pc EXCEPT ![p] = "call"]
    /\ new_chunks' = [new_chunks EXCEPT ![p] = <<>>]
    /\ batch_i' = [batch_i EXCEPT ![p] = 0]
    /\ st_entry' = [st_entry EXCEPT ![p] = collection]
    /\ UNCHANGED <<collection, st_hist>>

InitRetrieve ==
    /\ \E cik \in Ciks, years \in YearLists, nkw \in KeywordCounts,
          seed \in 0..MaxSeed, is_str \in BOOLEAN :
         /\ query = [cik |-> cik, years |-> years, nkw |-> nkw, is_str |-> is_str,
                     emb |-> QueryEmb, xemb |-> RetrEmbs[2]]
         /\ feat = FeatOf(seed, nkw)
    /\ expanded_query = [emb |-> <<0, 0>>]
    /\ rt_pc = "hyde"
    /\ candidates = <<>>
    /\ filtered = <<>>
    /\ final = <<>>
    /\ used_fallback = FALSE
    /\ citations = <<>>
    /\ ChunkIdle
    /\ StoreIdle
    /\ CacheIdle
    /\ MmrIdle
    /\ ExtractIdle
    /\ PlIdle
    /\ ViewIdle
    /\ ToolIdle

NextRetrieve ==
    \/ \E i \in 1..Len(RetrFilings) :
          IngestAndStore(1, RetrFilings[i]) /\ UNCHANGED <<chunkVars, retrVars, cacheVars, mmrVars, extractVars, plVars, viewVars, toolVars>>
    \/ AddChunksBegin(1) /\ UNCHANGED <<chunkVars, retrVars, cacheVars, mmrVars, extractVars, plVars, viewVars, toolVars>>
    \/ AddBatch(1) /\ UNCHANGED <<chunkVars, retrVars, cacheVars, mmrVars, extractVars, plVars, viewVars, toolVars>>
    \/ Hyde /\ UNCHANGED <<chunkVars, storeVars, cacheVars, mmrVars, extractVars, plVars, viewVars, toolVars>>
    \/ RetrieveMmr /\ UNCHANGED <<chunkVars, storeVars, cacheVars, mmrVars, extractVars, plVars, viewVars, toolVars>>
    \/ CragFilter /\ UNCHANGED <<chunkVars, storeVars, cacheVars, mmrVars, extractVars, plVars, viewVars, toolVars>>
    \/ Rerank /\ UNCHANGED <<chunkVars, storeVars, cacheVars, mmrVars, extractVars, plVars, viewVars, toolVars>>

SpecRetrieve == InitRetrieve /\ [][NextRetrieve]_vars

\* ---- _mmr_select on its own ----
MmrEmbs == {<<8, 6>>, <<10, 0>>, <<6, 8>>, <<0, 10>>, <<8, -6>>}
Lambdas == {0, 7, 10}

\* any embeddings of up to MaxMmrCand indexed chunks, any list the index query
\* can return for them, any n_results, mmr_lambda 0, 0.7 or 1
InitMmr ==
    /\ \E n \in 1..Min(MaxMmrCand, Len(RerankChunks)) :
         /\ feat \in [{RerankChunks[i].text : i \in 1..n} ->
                        [emb : MmrEmbs, hits : {0}, ce : {0}, ce_trim : {0}]]
         /\ \E r \in QueryOutcomes({Entry(RerankChunks[i]) : i \in 1..n}, QueryEmb,
                                   Min(N_CANDIDATES, n), build_filter(1, 0)),
               k \in 1..MaxMmrCand, l \in Lambdas :
              mmr_in = [ query_embedding |-> QueryEmb,
                         candidates |-> [i \in 1..Len(r) |-> parse_result(r[i], QueryEmb)],
                         n_results |-> k,
                         mmr_lambda |-> l ]
    /\ mmr_out = <<>>
    /\ mmr_pc = "call"
    /\ query = [cik |-> 0]
    /\ rt_pc = "idle"
    /\ expanded_query = [emb |-> <<0, 0>>]
    /\ candidates = <<>>
    /\ filtered = <<>>
    /\ final = <<>>
    /\ used_fallback = FALSE
    /\ citations = <<>>
    /\ ChunkIdle
    /\ StoreIdle
    /\ CacheIdle
    /\ ExtractIdle
    /\ PlIdle
    /\ ViewIdle
    /\ ToolIdle

\* selected = _mmr_select(query_embedding, candidates, n_results, mmr_lambda)
MmrSelect ==
    /\ mmr_pc = "call"
    /\ mmr_out' = mmr_select(mmr_in.query_embedding, mmr_in.candidates,
                             mmr_in.n_results, mmr_in.mmr_lambda)
    /\ mmr_pc' = "done"
    /\ UNCHANGED <<mmr_in, chunkVars, storeVars, retrVars, cacheVars, extractVars, plVars, viewVars, toolVars>>

NextMmr == MmrSelect

SpecMmr == InitMmr /\ [][NextMmr]_vars

(***************************************************************************)
(* rag/ingestion.py _extract_sections.  The clean text is a sequence of    *)
(* pieces: an occurrence of a heading marker of a section, or running text *)
(* that holds no marker.  A piece has a length in characters; a position   *)
(* in the text is the index of a piece.                                    *)
(***************************************************************************)
MIN_SECTION_LENGTH == 500

\* SECTION_MARKERS[section]: the markers in the order of the list, by rank
MarkerRanks == {1, 2}

HeadingPiece(section, rank) ==
    [kind |-> "marker", section |-> section, rank |-> rank, len |-> 10]
TextPiece(len) ==
    [kind |-> "text", section |-> "", rank |-> 0, len |-> len]

\* text_lower.find(marker): the first position of the marker, 0 for -1
Find(text, section, rank) ==
    LET hits == {i \in 1..Len(text) : text[i] = HeadingPiece(section, rank)}
    IN IF hits = {} THEN 0 ELSE CHOOSE i \in hits : \A j \in hits : i <= j

\* the loop over the markers of one section: the position of the first
\* marker of the list that occurs at all, 0 if none does
MarkerPosition(text, section) ==
    LET found == {r \in MarkerRanks : Find(text, section, r) # 0}
    IN IF found = {} THEN 0
       ELSE Find(text, section, CHOOSE r \in found : \A q \in found : r <= q)

\* len(text[start_pos:end_pos].strip()), pieces start_pos .. end_pos - 1
RECURSIVE SpanLength(_, _, _)
SpanLength(text, start_pos, end_pos) ==
    IF start_pos >= end_pos THEN 0
    ELSE text[start_pos].len + SpanLength(text, start_pos + 1, end_pos)

\* _extract_sections: per section the span [start, end) it keeps, or "" (<<>>)
extract_sections(text) ==
    LET positions == {s \in SectionSet : MarkerPosition(text, s) # 0}
        start(s) == MarkerPosition(text, s)
        later(s) == {start(t) : t \in {u \in positions : start(u) > start(s)}}
        end(s) == IF later(s) = {} THEN Len(text) + 1
                  ELSE CHOOSE e \in later(s) : \A x \in later(s) : e <= x
    IN [s \in SectionSet |->
          IF s \in positions /\ SpanLength(text, start(s), end(s)) >= MIN_SECTION_LENGTH
          THEN <<[start |-> start(s), end |-> end(s)]>>
          ELSE <<>>]

Pieces ==
    {HeadingPiece(s, r) : s \in SectionSet, r \in MarkerRanks}
        \cup {TextPiece(40), TextPiece(MIN_SECTION_LENGTH)}

\* any clean text of up to MaxDocLen pieces
InitExtract ==
    /\ doc \in UNION {[1..n -> Pieces] : n \in 0..MaxDocLen}
    /\ sections_out = <<>>
    /\ ex_pc = "call"
    /\ ChunkIdle
    /\ StoreIdle
    /\ RetrIdle
    /\ CacheIdle
    /\ MmrIdle
    /\ PlIdle
    /\ ViewIdle
    /\ ToolIdle

\* sections = _extract_sections(clean_text)
ExtractSections ==
    /\ ex_pc = "call"
    /\ sections_out' = extract_sections(doc)
    /\ ex_pc' = "done"
    /\ UNCHANGED <<doc, chunkVars, storeVars, retrVars, cacheVars, mmrVars, plVars, viewVars, toolVars>>

NextExtract == ExtractSections

SpecExtract == InitExtract /\ [][NextExtract]_vars

(***************************************************************************)
(* edgar/cache.py.  The clock counts half seconds, so that time.time() has *)
(* a fractional part that int() drops.                                     *)
(***************************************************************************)
TicksPerSecond == 2
SecondsPerHour == 3600

\* tables the callers name: tools/search.py names company_search, one of the
\* tables of init_db, and rag/ingestion.py names filing_text
CalledTables == {"company_search", "filing_text"}
CacheKeys == {"k1"}
CacheValues == {"v1", "v2"}
\* max_age_hours of the callers: financials.py passes 48, ingestion.py 720,
\* search.py leaves the default 24
MaxAges == {24, 48}

\* json.dumps and json.loads of a value that came from JSON
json_dumps(v) == <<"json", v>>
json_loads(r) == r[2]

\* int(time.time()), in seconds
int_time(t) == t \div TicksPerSecond

\* age_hours > max_age_hours, for age_hours = (time.time() - cached_at) / 3600
Expired(t, cached_at, max_age_hours) ==
    t - TicksPerSecond * cached_at > TicksPerSecond * SecondsPerHour * max_age_hours

HasRow(table, key_val) == table \in DOMAIN db /\ key_val \in DOMAIN db[table]

\* get_cached; a table that does not exist makes conn.execute raise
\* sqlite3.OperationalError
get_cached(table, key_val, max_age_hours) ==
    /\ cache_ret' =
         [ op |-> "get", table |-> table, key |-> key_val, max_age |-> max_age_hours,
           at |-> clock,
           outcome |-> IF table \notin DOMAIN db THEN "raised"
                       ELSE IF ~HasRow(table, key_val) THEN "None"
                       ELSE IF Expired(clock, db[table][key_val].cached_at, max_age_hours)
                            THEN "None"
                       ELSE "value",
           value |-> IF HasRow(table, key_val)
                        /\ ~Expired(clock, db[table][key_val].cached_at, max_age_hours)
                     THEN json_loads(db[table][key_val].result)
                     ELSE "" ]
    /\ UNCHANGED <<db, clock, put_log>>

\* INSERT OR REPLACE of one row
Upsert(rows, key_val, row) ==
    [k \in DOMAIN rows \cup {key_val} |-> IF k = key_val THEN row ELSE rows[k]]

\* set_cached; put_log keeps the value and the time.time() of the call
set_cached(table, key_val, data) ==
    /\ IF table \in DOMAIN db
       THEN db' = [db EXCEPT ![table] =
                      Upsert(@, key_val, [ result    |-> json_dumps(data),
                                           cached_at |-> int_time(clock) ])]
       ELSE UNCHANGED db
    /\ cache_ret' =
         [ op |-> "set", table |-> table, key |-> key_val, max_age |-> 0,
           at |-> clock,
           outcome |-> IF table \in DOMAIN db THEN "None" ELSE "raised",
           value |-> data ]
    /\ put_log' = Upsert(put_log, <<table, key_val>>, [value |-> data, at |-> clock])
    /\ UNCHANGED clock

\* the times at which the cache is called: within MaxSkew half seconds of
\* a whole number of max_age hours after the start
ClockSamples ==
    {t \in {TicksPerSecond * SecondsPerHour * a + d :
                a \in {0} \cup MaxAges, d \in (0 - 1)..MaxSkew} : t >= 0}

\* wall-clock time passes
Tick(t) ==
    /\ t > clock
    /\ clock' = t
    /\ UNCHANGED <<db, cache_ret, put_log>>

InitCache ==
    /\ CacheIdle
    /\ MmrIdle
    /\ ExtractIdle
    /\ PlIdle
    /\ ViewIdle
    /\ ToolIdle
    /\ ChunkIdle
    /\ StoreIdle
    /\ RetrIdle

NextCache ==
    \/ \E table \in CalledTables, key_val \in CacheKeys, a \in MaxAges :
          get_cached(table, key_val, a) /\ UNCHANGED <<chunkVars, storeVars, retrVars, mmrVars, extractVars, plVars, viewVars, toolVars>>
    \/ \E table \in CalledTables, key_val \in CacheKeys, data \in CacheValues :
          set_cached(table, key_val, data) /\ UNCHANGED <<chunkVars, storeVars, retrVars, mmrVars, extractVars, plVars, viewVars, toolVars>>
    \/ \E t \in ClockSamples : Tick(t) /\ UNCHANGED <<chunkVars, storeVars, retrVars, mmrVars, extractVars, plVars, viewVars, toolVars>>

SpecCache == InitCache /\ [][NextCache]_vars

(***************************************************************************)
(* rag/pipline.py search_filing with rag/ingestion.py ingest_recent_filings *)
(* and ingest_filing, for one company and filing type.  upstream is the    *)
(* list parse_filings_list reads from the submissions of the company; a    *)
(* fetch from EDGAR can fail.                                              *)
(***************************************************************************)
\* datetime.now().year
CurrentYear == 2024
PlCik == 1
FILING_TEXT_MAX_AGE == 720

\* _get_target_years(n)
get_target_years(n) == [i \in 1..n |-> CurrentYear - (i - 1)]

\* sample_id = f"{cik_padded}_{year}_risk_factors_0"
SentinelId(cik, year) == ChunkId(cik, year, "risk_factors", 0)

\* _find_missing_years
RECURSIVE find_missing_years(_, _, _)
find_missing_years(coll, cik, years) ==
    IF years = <<>> THEN <<>>
    ELSE (IF ~chunk_exists(coll, SentinelId(cik, Head(years)))
          THEN <<Head(years)>> ELSE <<>>)
         \o find_missing_years(coll, cik, Tail(years))

\* parse_filings_list(raw_submissions, filing_type, limit): the first limit
\* filings of the type
parse_filings_list(list, limit) == SubSeq(list, 1, Min(limit, Len(list)))

\* what ingest_filing returns for filing f, and _empty_result
IngestResult(f) == Filing(PlCik, f.acc, f.year, "10-K", f.words)
empty_result(f) == Filing(PlCik, f.acc, f.year, "10-K", [s \in SectionSet |-> 0])

CacheKey(f) == <<PlCik, f.acc>>

\* the call ends: search_filing returns, or an exception leaves it
EndCall(call, outcome) ==
    /\ pl_hist' = Append(pl_hist, [call |-> call, outcome |-> outcome,
                                   coll_after |-> collection])
    /\ pl_pc' = "idle"
    /\ pl_call' = <<>>

\* search_filing, steps 1 and 2
PlSearchFiling(n) ==
    /\ pl_pc = "idle"
    /\ Len(pl_hist) < MaxSearches
    /\ LET target_years == get_target_years(n)
           missing_years == find_missing_years(collection, PlCik, target_years)
       IN /\ pl_call' = [ n |-> n, target_years |-> target_years,
                          missing_years |-> missing_years,
                          coll_before |-> collection,
                          faults |-> {}, ingested |-> <<>>, fetched |-> <<>>,
                          chunked |-> <<>>, passed |-> <<>>,
                          retrieved |-> FALSE ]
          /\ pl_pc' = IF missing_years = <<>> THEN "retrieve" ELSE "submissions"
    /\ pl_queue' = <<>>
    /\ pl_results' = <<>>
    /\ UNCHANGED <<upstream, pl_hist>>

\* ingest_recent_filings up to its loop: client.get_company_submissions
\* raises on a timeout or a status that is not 2xx
PlGetSubmissions(outcome) ==
    /\ pl_pc = "submissions"
    /\ IF outcome = "raise"
       THEN /\ EndCall([pl_call EXCEPT !.faults = @ \cup {<<"submissions", 0>>}],
                       "raised")
            /\ UNCHANGED <<pl_queue, pl_results>>
       ELSE /\ pl_queue' = parse_filings_list(upstream, Len(pl_call.missing_years))
            /\ pl_results' = <<>>
            /\ pl_pc' = IF pl_queue' = <<>> THEN "store" ELSE "lookup"
            /\ UNCHANGED <<pl_call, pl_hist>>
    /\ UNCHANGED upstream

\* ingest_filing, the cache lookup
PlCacheLookup ==
    /\ pl_pc = "lookup"
    /\ LET f == Head(pl_queue)
           call == [pl_call EXCEPT !.ingested = Append(@, f.acc)]
       IN /\ get_cached("filing_text", CacheKey(f), FILING_TEXT_MAX_AGE)
          /\ IF cache_ret'.outcome = "raised"
             THEN /\ EndCall(call, "raised")
                  /\ UNCHANGED <<pl_queue, pl_results>>
             ELSE /\ pl_call' = call
                  /\ UNCHANGED pl_hist
                  /\ IF cache_ret'.outcome = "value"
                     THEN /\ pl_results' = Append(pl_results, cache_ret'.value)
                          /\ pl_queue' = Tail(pl_queue)
                          /\ pl_pc' = IF pl_queue' = <<>> THEN "store" ELSE "lookup"
                     ELSE /\ pl_pc' = "download"
                          /\ UNCHANGED <<pl_queue, pl_results>>
    /\ UNCHANGED upstream

\* ingest_filing after a cache miss: the filing index, the document, the
\* sections, set_cached.  _get_main_document catches every failure; of
\* get_filing_document only a status other than 200 is handled, a timeout
\* raises
PlDownload(outcome) ==
    /\ pl_pc = "download"
    /\ LET f == Head(pl_queue)
       IN CASE outcome = "body_raised" ->
                 /\ EndCall([pl_call EXCEPT !.faults = @ \cup {<<"body", f.acc>>}],
                            "raised")
                 /\ UNCHANGED <<pl_queue, pl_results, cacheVars>>
            [] outcome \in {"index_failed", "body_none"} ->
                 /\ pl_call' = [pl_call EXCEPT !.faults = @ \cup {<<"body", f.acc>>}]
                 /\ pl_results' = Append(pl_results, empty_result(f))
                 /\ pl_queue' = Tail(pl_queue)
                 /\ pl_pc' = IF pl_queue' = <<>> THEN "store" ELSE "lookup"
                 /\ UNCHANGED <<pl_hist, cacheVars>>
            [] outcome = "ok" ->
                 /\ set_cached("filing_text", CacheKey(f), IngestResult(f))
                 /\ pl_call' = [pl_call EXCEPT !.fetched = Append(@, f.acc)]
                 /\ pl_results' = Append(pl_results, IngestResult(f))
                 /\ pl_queue' = Tail(pl_queue)
                 /\ pl_pc' = IF pl_queue' = <<>> THEN "store" ELSE "lookup"
                 /\ UNCHANGED pl_hist
    /\ UNCHANGED upstream

DownloadOutcomes == {"index_failed", "body_raised", "body_none", "ok"}

\* the filings of a list of ingest_filing results
Accs(results) == [i \in 1..Len(results) |-> results[i].acc]

\* _ingest_and_store after ingest_recent_filings, up to store.add_chunks
PlChunkAndStore ==
    /\ pl_pc = "store"
    /\ LET chunks == chunk_filings(pl_results)
       IN IF pl_results = <<>> \/ chunks = <<>>
          THEN /\ pl_pc' = "retrieve"
               /\ pl_call' = [pl_call EXCEPT !.chunked = Accs(pl_results)]
               /\ UNCHANGED storeVars
          ELSE /\ pl_pc' = "storing"
               /\ pl_call' = [pl_call EXCEPT !.chunked = Accs(pl_results),
                                             !.passed = chunks]
               /\ arg' = [arg EXCEPT ![1] = chunks]
               /\ st_pc' = [st_pc EXCEPT ![1] = "call"]
               /\ new_chunks' = [new_chunks EXCEPT ![1] = <<>>]
               /\ batch_i' = [batch_i EXCEPT ![1] = 0]
               /\ st_entry' = [st_entry EXCEPT ![1] = collection]
               /\ UNCHANGED <<collection, st_hist>>
    /\ UNCHANGED <<upstream, pl_queue, pl_results, pl_hist>>

\* store.add_chunks has ended: it returned or raised
PlStored ==
    /\ pl_pc = "storing"
    /\ st_pc[1] = "done"
    /\ IF st_hist[1][Len(st_hist[1])].raised
       THEN EndCall(pl_call, "raised")
       ELSE /\ pl_pc' = "retrieve"
            /\ UNCHANGED <<pl_call, pl_hist>>
    /\ UNCHANGED <<upstream, pl_queue, pl_results>>

\* search_filing step 4: retriever.retrieve(query, cik_padded, target_years)
PlRetrieve ==
    /\ pl_pc = "retrieve"
    /\ pl_pc' = "retrieving"
    /\ pl_call' = [pl_call EXCEPT !.retrieved = TRUE]
    /\ query' = [cik |-> PlCik, years |-> pl_call.target_years, nkw |-> 2,
                 is_str |-> TRUE, emb |-> QueryEmb, xemb |-> RetrEmbs[2]]
    /\ rt_pc' = "hyde"
    /\ expanded_query' = [emb |-> <<0, 0>>]
    /\ candidates' = <<>>
    /\ filtered' = <<>>
    /\ final' = <<>>
    /\ used_fallback' = FALSE
    /\ citations' = <<>>
    /\ UNCHANGED <<feat, upstream, pl_queue, pl_results, pl_hist>>

\* search_filing step 5: return _clean_chunks(results)
PlReturn ==
    /\ pl_pc = "retrieving"
    /\ rt_pc = "return"
    /\ EndCall(pl_call, "returned")
    /\ UNCHANGED <<upstream, pl_queue, pl_results>>

\* ---- inputs of search_filing ----
\* a filing has its words under Item 1A or under Item 7
PlShapes ==
    { [s \in SectionSet |-> IF s = Sections[1] THEN CHUNK_SIZE_WORDS ELSE 0],
      [s \in SectionSet |-> IF s = Sections[2] THEN CHUNK_SIZE_WORDS ELSE 0] }

PlYears == {CurrentYear - i : i \in 0..MaxYearsArg}

\* the 10-K filings of the company as the submissions list them, newest
\* first; acc is the position
PlUpstreams ==
    UNION { { u \in [1..k -> [acc : 1..k, year : PlYears, words : PlShapes]] :
                /\ \A i \in 1..k : u[i].acc = i
                /\ \A i \in 1..(k - 1) : u[i].year >= u[i + 1].year } :
            k \in 0..MaxUpstream }

\* embeddings, keyword hits and cross-encoder scores of the texts
PlFeat ==
    [t \in [acc : 1..MaxUpstream, section : SectionSet,
            start : {0, Stride}, end : {CHUNK_SIZE_WORDS}, sentences : {"all"}] |->
        [ emb     |-> IF t.section = Sections[1]
                      THEN (IF t.start = 0 THEN QueryEmb ELSE <<10, 0>>)
                      ELSE (IF t.start = 0 THEN <<6, 8>> ELSE <<0, 10>>),
          hits    |-> 1,
          ce      |-> t.acc,
          ce_trim |-> 1 ]]

\* cache.db is a file that outlives the process: it holds the tables of
\* init_db, and filing_text where something created it
InitPipeline ==
    /\ upstream \in PlUpstreams
    /\ pl_pc = "idle"
    /\ pl_call = <<>>
    /\ pl_queue = <<>>
    /\ pl_results = <<>>
    /\ pl_hist = <<>>
    /\ db \in {init_db, [t \in TableNames \cup {"filing_text"} |-> <<>>]}
    /\ clock = 0
    /\ cache_ret = [ op |-> "none", table |-> "", key |-> "", max_age |-> 0,
                     at |-> 0, outcome |-> "None", value |-> "" ]
    /\ put_log = <<>>
    /\ feat = PlFeat
    /\ query = [cik |-> 0]
    /\ rt_pc = "idle"
    /\ expanded_query = [emb |-> <<0, 0>>]
    /\ candidates = <<>>
    /\ filtered = <<>>
    /\ final = <<>>
    /\ used_fallback = FALSE
    /\ citations = <<>>
    /\ ChunkIdle
    /\ StoreIdle
    /\ MmrIdle
    /\ ExtractIdle
    /\ ViewIdle
    /\ ToolIdle

NextPipeline ==
    \/ \E n \in 1..MaxYearsArg :
          PlSearchFiling(n) /\ UNCHANGED <<chunkVars, storeVars, retrVars, cacheVars, mmrVars, extractVars, viewVars, toolVars>>
    \/ \E outcome \in {"ok", "raise"} :
          PlGetSubmissions(outcome) /\ UNCHANGED <<chunkVars, storeVars, retrVars, cacheVars, mmrVars, extractVars, viewVars, toolVars>>
    \/ PlCacheLookup /\ UNCHANGED <<chunkVars, storeVars, retrVars, mmrVars, extractVars, viewVars, toolVars>>
    \/ \E outcome \in DownloadOutcomes :
          PlDownload(outcome) /\ UNCHANGED <<chunkVars, storeVars, retrVars, mmrVars, extractVars, viewVars, toolVars>>
    \/ PlChunkAndStore /\ UNCHANGED <<chunkVars, retrVars, cacheVars, mmrVars, extractVars, viewVars, toolVars>>
    \/ AddChunksBegin(1) /\ pl_pc = "storing" /\ UNCHANGED <<chunkVars, retrVars, cacheVars, mmrVars, extractVars, plVars, viewVars, toolVars>>
    \/ AddBatch(1) /\ pl_pc = "storing" /\ UNCHANGED <<chunkVars, retrVars, cacheVars, mmrVars, extractVars, plVars, viewVars, toolVars>>
    \/ PlStored /\ UNCHANGED <<chunkVars, storeVars, retrVars, cacheVars, mmrVars, extractVars, viewVars, toolVars>>
    \/ PlRetrieve /\ UNCHANGED <<chunkVars, storeVars, cacheVars, mmrVars, extractVars, viewVars, toolVars>>
    \/ Hyde /\ pl_pc = "retrieving" /\ UNCHANGED <<chunkVars, storeVars, cacheVars, mmrVars, extractVars, plVars, viewVars, toolVars>>
    \/ RetrieveMmr /\ pl_pc = "retrieving" /\ UNCHANGED <<chunkVars, storeVars, cacheVars, mmrVars, extractVars, plVars, viewVars, toolVars>>
    \/ CragFilter /\ pl_pc = "retrieving" /\ UNCHANGED <<chunkVars, storeVars, cacheVars, mmrVars, extractVars, plVars, viewVars, toolVars>>
    \/ Rerank /\ pl_pc = "retrieving" /\ UNCHANGED <<chunkVars, storeVars, cacheVars, mmrVars, extractVars, plVars, viewVars, toolVars>>
    \/ PlReturn /\ UNCHANGED <<chunkVars, storeVars, retrVars, cacheVars, mmrVars, extractVars, viewVars, toolVars>>

SpecPipeline == InitPipeline /\ [][NextPipeline]_vars

(***************************************************************************)
(* rag/store.py under concurrent callers: add_chunks runs batch by batch,  *)
(* chunk_exists, search_mmr and clear_company are single calls on the      *)
(* collection.  search_filing is a sequence of these calls.                *)
(***************************************************************************)
\* clear_company: _collection.delete(where = {"cik": cik})
clear_company(coll, cik) == {e \in coll : e.cik # cik}

\* the lists the callers hand to add_chunks
ViewLists ==
    { <<chunk_filing(StoreFilings[1])[1], chunk_filing(StoreFilings[1])[2],
        chunk_filing(StoreFilings[3])[1]>>,
      <<chunk_filing(StoreFilings[2])[1]>> }

ViewEmbs == <<QueryEmb, <<6, 8>>, <<10, 0>>>>

ViewFeat ==
    [t \in {c.text : c \in StoreChunks} |->
        [ emb     |-> IF t.start = 0 THEN ViewEmbs[t.acc] ELSE <<0, 10>>,
          hits    |-> 0,
          ce      |-> 0,
          ce_trim |-> 0 ]]

\* a caller calls add_chunks(list), once
CallAddChunks(p, list) ==
    /\ st_pc[p] = "idle"
    /\ arg' = [arg EXCEPT ![p] = list]
    /\ st_pc' = [st_pc EXCEPT ![p] = "call"]
    /\ new_chunks' = [new_chunks EXCEPT ![p] = <<>>]
    /\ batch_i' = [batch_i EXCEPT ![p] = 0]
    /\ st_entry' = [st_entry EXCEPT ![p] = collection]
    /\ last_op' = [NoOp EXCEPT !.op = "add_chunks"]
    /\ UNCHANGED <<collection, st_hist, seen>>

\* a step of add_chunks by caller p
AddStep(p) ==
    /\ AddChunksBegin(p) \/ AddBatch(p)
    /\ last_op' = [NoOp EXCEPT !.op = "add_chunks"]
    /\ UNCHANGED seen

\* a reader calls chunk_exists(chunk_id)
ChunkExistsRead(chunk_id) ==
    /\ last_op' = [op |-> "chunk_exists", cik |-> 0, id |-> chunk_id,
                   found |-> chunk_exists(collection, chunk_id)]
    /\ seen' = seen \cup {e \in collection : e.chunk_id = chunk_id}
    /\ UNCHANGED storeVars

\* a reader calls search_mmr(query, cik, year, n_results = 10, mmr_lambda = 0.7)
SearchRead(cik, year) ==
    /\ \E out \in search_mmr(collection, QueryEmb, cik, year, N_PER_YEAR, MMR_LAMBDA) :
          /\ last_op' = [op |-> "search_mmr", cik |-> cik, id |-> <<>>,
                         found |-> out # <<>>]
          /\ seen' = seen \cup {Entry(out[i]) : i \in 1..Len(out)}
    /\ UNCHANGED storeVars

\* clear_company(cik)
ClearCompany(cik) ==
    /\ collection' = clear_company(collection, cik)
    /\ seen' = {e \in seen : e.cik # cik}
    /\ last_op' = [op |-> "clear_company", cik |-> cik, id |-> <<>>, found |-> FALSE]
    /\ UNCHANGED <<arg, st_pc, new_chunks, batch_i, st_entry, st_hist>>

InitIndexView ==
    /\ StoreIdle
    /\ ViewIdle
    /\ ToolIdle
    /\ feat = ViewFeat
    /\ query = [cik |-> 0]
    /\ rt_pc = "idle"
    /\ expanded_query = [emb |-> <<0, 0>>]
    /\ candidates = <<>>
    /\ filtered = <<>>
    /\ final = <<>>
    /\ used_fallback = FALSE
    /\ citations = <<>>
    /\ ChunkIdle
    /\ CacheIdle
    /\ MmrIdle
    /\ ExtractIdle
    /\ PlIdle

NextIndexView ==
    \/ \E p \in Callers, list \in ViewLists :
          CallAddChunks(p, list) /\ UNCHANGED <<chunkVars, retrVars, cacheVars, mmrVars, extractVars, plVars, toolVars>>
    \/ \E p \in Callers :
          AddStep(p) /\ UNCHANGED <<chunkVars, retrVars, cacheVars, mmrVars, extractVars, plVars, toolVars>>
    \/ \E c \in StoreChunks :
          ChunkExistsRead(c.chunk_id) /\ UNCHANGED <<chunkVars, retrVars, cacheVars, mmrVars, extractVars, plVars, toolVars>>
    \/ \E cik \in Ciks, year \in {0, 2023} :
          SearchRead(cik, year) /\ UNCHANGED <<chunkVars, retrVars, cacheVars, mmrVars, extractVars, plVars, toolVars>>
    \/ \E cik \in Ciks :
          ClearCompany(cik) /\ UNCHANGED <<chunkVars, retrVars, cacheVars, mmrVars, extractVars, plVars, toolVars>>

SpecIndexView == InitIndexView /\ [][NextIndexView]_vars

(***************************************************************************)
(* rag/retriever.py retrieve_mmr on an index that holds one filing for     *)
(* each of three years, each with N_PER_YEAR chunks or one more.           *)
(***************************************************************************)
UnionYears == <<2024, 2023, 2022>>

\* the words of a section that gives N_PER_YEAR chunks
TenChunkWords == MIN_CHUNK_WORDS + (N_PER_YEAR - 1) * Stride

UnionFiling(k, w) ==
    Filing(1, k, UnionYears[k], "10-K",
           [s \in SectionSet |-> IF s = Sections[1] THEN w ELSE 0])

\* embeddings of length about 10 with pairwise different similarity to the
\* query
UnionEmbs ==
    << <<8, 6>>, <<7, 7>>, <<6, 8>>, <<5, 9>>, <<4, 9>>, <<3, 10>>, <<10, 0>>,
       <<2, 10>>, <<10, -1>>, <<0, 10>>, <<9, -4>> >>

UnionTexts ==
    UNION { {c.text : c \in {chunk_filing(UnionFiling(k, w))[i] :
                               i \in 1..Len(chunk_filing(UnionFiling(k, w)))}} :
            <<k, w>> \in (1..Len(UnionYears)) \X {TenChunkWords, TenChunkWords + Stride} }

UnionFeat(seed) ==
    [t \in UnionTexts |->
        [ emb     |-> UnionEmbs[(((t.start \div Stride) + seed * t.acc)
                                    % Len(UnionEmbs)) + 1],
          hits    |-> 0,
          ce      |-> 0,
          ce_trim |-> 0 ]]

\* the lists of different years
UnionYearLists ==
    UNION { {l \in [1..n -> {UnionYears[k] : k \in 1..Len(UnionYears)}] :
                \A i, j \in 1..n : i # j => l[i] # l[j]} :
            n \in 1..Len(UnionYears) }

InitUnion ==
    /\ \E ws \in [1..Len(UnionYears) -> {TenChunkWords, TenChunkWords + Stride}],
          seed \in 0..MaxSeed, years \in UnionYearLists :
         /\ collection =
              UNION { {Entry(chunk_filing(UnionFiling(k, ws[k]))[i]) :
                         i \in 1..Len(chunk_filing(UnionFiling(k, ws[k])))} :
                      k \in 1..Len(UnionYears) }
         /\ feat = UnionFeat(seed)
         /\ query = [cik |-> 1, years |-> years, nkw |-> 0, is_str |-> TRUE,
                     emb |-> QueryEmb, xemb |-> QueryEmb]
    /\ expanded_query = hyde_expand(query)
    /\ rt_pc = "mmr"
    /\ candidates = <<>>
    /\ filtered = <<>>
    /\ final = <<>>
    /\ used_fallback = FALSE
    /\ citations = <<>>
    /\ arg = [p \in Callers |-> <<>>]
    /\ st_pc = [p \in Callers |-> "idle"]
    /\ new_chunks = [p \in Callers |-> <<>>]
    /\ batch_i = [p \in Callers |-> 0]
    /\ st_entry = [p \in Callers |-> {}]
    /\ st_hist = [p \in Callers |-> <<>>]
    /\ ChunkIdle
    /\ CacheIdle
    /\ MmrIdle
    /\ ExtractIdle
    /\ PlIdle
    /\ ViewIdle
    /\ ToolIdle

NextUnion == RetrieveMmr /\ UNCHANGED <<chunkVars, storeVars, cacheVars, mmrVars, extractVars, plVars, viewVars, toolVars>>

SpecUnion == InitUnion /\ [][NextUnion]_vars

(***************************************************************************)
(* tools/search.py search_company over edgar/cache.py.  get_filings,        *)
(* get_financials, compare_companies and ingest_filing use the cache in     *)
(* the same way: cached = get_cached(...); if cached: ... else: fetch and   *)
(* set_cached.                                                              *)
(***************************************************************************)
MaxRequests == 2

\* the names searched for (name.lower() is the key)
SearchNames == {"acme", "zzzz"}

\* parser.parse_company_search(client.search_company(name)): the list of the
\* companies whose name contains the query or whose ticker equals it; no
\* company matches "zzzz"
ParsedSearch(name) == IF name = "acme" THEN <<"Acme Corp">> ELSE <<>>

\* bool(x) of a value loaded from JSON: an empty list is false
Truthy(v) == v # <<>>

\* cached = cache.get_cached("company_search", "query", name.lower())
SearchCompanyLookup(name) ==
    /\ tool_pc = "idle"
    /\ Len(tool_log) < MaxRequests
    /\ get_cached("company_search", name, 24)
    /\ tool_pc' = "looked"
    /\ tool_req' = name
    /\ UNCHANGED tool_log

\* if cached: results = cached; else: fetch, parse, set_cached
SearchCompanyFinish ==
    /\ tool_pc = "looked"
    /\ IF cache_ret.outcome = "value" /\ Truthy(cache_ret.value)
       THEN /\ tool_log' = Append(tool_log,
                                  [ name |-> tool_req, at |-> cache_ret.at,
                                    fetched |-> FALSE, wrote |-> FALSE,
                                    stored_at |-> 0,
                                    results |-> cache_ret.value ])
            /\ UNCHANGED cacheVars
       ELSE /\ set_cached("company_search", tool_req, ParsedSearch(tool_req))
            /\ tool_log' = Append(tool_log,
                                  [ name |-> tool_req, at |-> cache_ret.at,
                                    fetched |-> TRUE, wrote |-> TRUE,
                                    stored_at |-> clock,
                                    results |-> ParsedSearch(tool_req) ])
    /\ tool_pc' = "idle"
    /\ tool_req' = ""

InitTools ==
    /\ CacheIdle
    /\ ToolIdle
    /\ ChunkIdle
    /\ StoreIdle
    /\ RetrIdle
    /\ MmrIdle
    /\ ExtractIdle
    /\ PlIdle
    /\ ViewIdle

NextTools ==
    \/ \E name \in SearchNames :
          SearchCompanyLookup(name) /\ UNCHANGED <<chunkVars, storeVars, retrVars, mmrVars, extractVars, plVars, viewVars>>
    \/ SearchCompanyFinish /\ UNCHANGED <<chunkVars, storeVars, retrVars, mmrVars, extractVars, plVars, viewVars>>
    \/ \E t \in ClockSamples :
          Tick(t) /\ UNCHANGED <<chunkVars, storeVars, retrVars, mmrVars, extractVars, plVars, viewVars, toolVars>>

SpecTools == InitTools /\ [][NextTools]_vars

(***************************************************************************)
(* Two callers of store.add_chunks with the chunks of the same filing, as   *)
(* two search_filing calls for the same company and year hand them over.    *)
(* The filter and every _collection.add are single steps of the backing     *)
(* store; the steps of the two callers interleave in any order.  The index  *)
(* holds any part of the filing already.                                    *)
(***************************************************************************)
\* a filing with k chunks of Item 1A, k up to MaxLen
ConcFilings ==
    { Filing(1, 1, 2023, "10-K",
             [s \in SectionSet |-> IF s = Sections[1]
                                   THEN CHUNK_SIZE_WORDS + (k - 1) * Stride
                                   ELSE 0]) : k \in 1..MaxLen }

InitConcurrentAdd ==
    /\ \E f \in ConcFilings :
          LET list == chunk_filing(f)
          IN /\ arg = [p \in Callers |-> list]
             /\ collection \in SUBSET {Entry(list[k]) : k \in 1..Len(list)}
    /\ st_pc = [p \in Callers |-> "call"]
    /\ new_chunks = [p \in Callers |-> <<>>]
    /\ batch_i = [p \in Callers |-> 0]
    /\ st_entry = [p \in Callers |-> collection]
    /\ st_hist = [p \in Callers |-> <<>>]
    /\ ChunkIdle
    /\ RetrIdle
    /\ CacheIdle
    /\ MmrIdle
    /\ ExtractIdle
    /\ PlIdle
    /\ ViewIdle
    /\ ToolIdle

NextConcurrentAdd ==
    \/ \E p \in Callers :
          AddChunksBegin(p) /\ UNCHANGED <<chunkVars, retrVars, cacheVars, mmrVars, extractVars, plVars, viewVars, toolVars>>
    \/ \E p \in Callers :
          AddBatch(p) /\ UNCHANGED <<chunkVars, retrVars, cacheVars, mmrVars, extractVars, plVars, viewVars, toolVars>>

SpecConcurrentAdd == InitConcurrentAdd /\ [][NextConcurrentAdd]_vars

(***************************************************************************)
(* search_filing over an index where store.add_chunks can be left between   *)
(* two batches.  add_chunks issues one _collection.add per batch and        *)
(* nothing undoes the batches already added when the call ends early: the   *)
(* process is stopped, or a later _collection.add raises.                   *)
(***************************************************************************)
\* add_chunks is left after a batch was added and before the next one
PlAbort ==
    /\ pl_pc = "storing"
    /\ st_pc[1] = "batch"
    /\ batch_i[1] > 0
    /\ st_pc' = [st_pc EXCEPT ![1] = "idle"]
    /\ EndCall(pl_call, "aborted")
    /\ UNCHANGED <<collection, arg, new_chunks, batch_i, st_entry, st_hist,
                   upstream, pl_queue, pl_results>>

\* one 10-K of the current year: two chunks of Item 1A and one of Item 7,
\* which add_chunks stores in two batches, or no Item 1A and one chunk of
\* Item 7
PartialShapes ==
    { [s \in SectionSet |-> IF s = Sections[1] THEN 2 * Stride
                            ELSE CHUNK_SIZE_WORDS],
      [s \in SectionSet |-> IF s = Sections[1] THEN 0 ELSE CHUNK_SIZE_WORDS] }

PartialUpstreams ==
    { <<[acc |-> 1, year |-> CurrentYear, words |-> w]>> : w \in PartialShapes }

PartialFeat ==
    [t \in [acc : {1}, section : SectionSet, start : {0, Stride},
            end : {CHUNK_SIZE_WORDS, 2 * Stride},
            sentences : {"all"}] |->
        [ emb     |-> IF t.section = Sections[1]
                      THEN (IF t.start = 0 THEN QueryEmb ELSE <<10, 0>>)
                      ELSE <<6, 8>>,
          hits    |-> 1,
          ce      |-> 1,
          ce_trim |-> 1 ]]

InitPartial ==
    /\ upstream \in PartialUpstreams
    /\ pl_pc = "idle"
    /\ pl_call = <<>>
    /\ pl_queue = <<>>
    /\ pl_results = <<>>
    /\ pl_hist = <<>>
    /\ db = [t \in TableNames \cup {"filing_text"} |-> <<>>]
    /\ clock = 0
    /\ cache_ret = [ op |-> "none", table |-> "", key |-> "", max_age |-> 0,
                     at |-> 0, outcome |-> "None", value |-> "" ]
    /\ put_log = <<>>
    /\ feat = PartialFeat
    /\ query = [cik |-> 0]
    /\ rt_pc = "idle"
    /\ expanded_query = [emb |-> <<0, 0>>]
    /\ candidates = <<>>
    /\ filtered = <<>>
    /\ final = <<>>
    /\ used_fallback = FALSE
    /\ citations = <<>>
    /\ ChunkIdle
    /\ StoreIdle
    /\ MmrIdle
    /\ ExtractIdle
    /\ ViewIdle
    /\ ToolIdle

NextPartial ==
    \/ NextPipeline
    \/ PlAbort /\ UNCHANGED <<chunkVars, retrVars, cacheVars, mmrVars, extractVars, viewVars, toolVars>>

SpecPartial == InitPartial /\ [][NextPartial]_vars

(***************************************************************************)
(* Properties of the chunker, checked under SpecChunk.                     *)
(***************************************************************************)
\* the chunks of section s of the filing at position acc, in emission order
SectionChunks(acc, s) ==
    SelectSeq(all_chunks, LAMBDA c : c.text.acc = acc /\ c.text.section = s)

ChunkWords(c) == c.text.end - c.text.start

\* the number of chunks emitted before position p for the same section
IndexInSection(p) ==
    Cardinality({q \in 1..(p - 1) :
                   /\ all_chunks[q].text.acc = all_chunks[p].text.acc
                   /\ all_chunks[q].text.section = all_chunks[p].text.section})

\* chunk p is chunk number IndexInSection(p) of its section and carries the
\* id cik_year_section_index of its filing
C3_IdFormat ==
    \A p \in 1..Len(all_chunks) :
        LET c == all_chunks[p]
            f == ingested_list[c.text.acc]
        IN c.chunk_id = <<f.cik, f.year, c.text.section, IndexInSection(p)>>

\* C3: chunk i of section s gets the id cik_year_s_i, and over any list of
\* filings of one company no two distinct chunks receive the same chunk_id.
C3_ChunkIdUnique ==
    chunk_pc = "done" =>
        /\ C3_IdFormat
        /\ \A p, q \in 1..Len(all_chunks) :
               p # q => all_chunks[p].chunk_id # all_chunks[q].chunk_id

\* the count stated for a section of n words
C4_ClaimedCount(n) ==
    IF n >= 400 THEN Max(0, 1 + ((n - 400) \div 350))
    ELSE IF n >= 50 THEN 1 ELSE 0

\* the count of the windows the loop emits: one per multiple of 350 that
\* leaves at least 50 words
C4_AmendedCount(n) ==
    IF n >= 50 THEN 1 + ((n - 50) \div 350) ELSE 0

\* C4 as claimed: a section of |W| words yields
\* max(0, 1 + floor((|W| - 400) / 350)) chunks when |W| >= 400, else one
\* chunk if |W| >= 50 and none if not.
C4_CountAsClaimed ==
    chunk_pc = "done" =>
        \A a \in 1..Len(ingested_list) : \A s \in SectionSet :
            Len(SectionChunks(a, s)) = C4_ClaimedCount(ingested_list[a].words[s])

\* C4 amended: a section of |W| words yields 1 + floor((|W| - 50) / 350)
\* chunks when |W| >= 50 (one more than claimed whenever |W| >= 400), and
\* none when |W| < 50.
C4_CountAmended ==
    chunk_pc = "done" =>
        \A a \in 1..Len(ingested_list) : \A s \in SectionSet :
            Len(SectionChunks(a, s)) = C4_AmendedCount(ingested_list[a].words[s])

\* a section of exactly 400 words has been chunked, into two chunks
C4_Witness ==
    /\ chunk_pc = "done"
    /\ \E a \in 1..Len(ingested_list) : \E s \in SectionSet :
           /\ ingested_list[a].words[s] = 400
           /\ Len(SectionChunks(a, s)) = 2

\* C5: every emitted chunk has between MIN_CHUNK_WORDS (50) and
\* CHUNK_SIZE_WORDS (400) words.
C5_ChunkSizeInRange ==
    chunk_pc = "done" =>
        \A p \in 1..Len(all_chunks) :
            /\ ChunkWords(all_chunks[p]) >= 50
            /\ ChunkWords(all_chunks[p]) <= 400

\* a section was chunked into a full chunk and a final chunk of 50 words
C5_Witness ==
    /\ chunk_pc = "done"
    /\ \E p, q \in 1..Len(all_chunks) :
           /\ ChunkWords(all_chunks[p]) = 400
           /\ ChunkWords(all_chunks[q]) = 50

\* C6: the last 50 words of a chunk are the first 50 words of the next chunk
\* of the same section, and the two windows share no other word position.
C6_OverlapExactly50 ==
    chunk_pc = "done" =>
        \A a \in 1..Len(ingested_list) : \A s \in SectionSet :
            LET cs == SectionChunks(a, s)
            IN \A i \in 1..(Len(cs) - 1) :
                   LET x == cs[i].text
                       y == cs[i + 1].text
                   IN /\ x.end - x.start >= 50
                      /\ y.end - y.start >= 50
                      /\ x.end - 50 = y.start
                      /\ Min(x.end, y.end) - Max(x.start, y.start) = 50

\* a section was chunked into a chunk followed by a short final chunk
C6_Witness ==
    /\ chunk_pc = "done"
    /\ \E a \in 1..Len(ingested_list) : \E s \in SectionSet :
           LET cs == SectionChunks(a, s)
           IN /\ Len(cs) >= 2
              /\ ChunkWords(cs[Len(cs)]) < 400
              /\ ChunkWords(cs[Len(cs)]) > 50

(***************************************************************************)
(* Properties of the store, checked under SpecStore.                       *)
(***************************************************************************)
\* the row of the collection coll with the given id
RowOf(coll, id) == CHOOSE e \in coll : e.chunk_id = id

\* the first chunk of list with the given id
FirstWithId(list, id) ==
    list[CHOOSE k \in 1..Len(list) :
             /\ list[k].chunk_id = id
             /\ \A j \in 1..(k - 1) : list[j].chunk_id # id]

\* C1: calling add_chunks with the same list twice in sequence leaves the
\* index (ids and the row stored for each id) as the first call left it, and
\* count() the same.
C1_AddTwiceSameIndex ==
    Len(st_hist[1]) = 2 =>
        /\ st_hist[1][2].coll = st_hist[1][1].coll
        /\ Count(st_hist[1][2].coll) = Count(st_hist[1][1].coll)

\* C2: for any list, also one that holds a chunk_id more than once, the call
\* completes without an error, every id of the list is stored exactly once,
\* and the row kept is the one stored first (the row already in the index,
\* else the first chunk of the list with that id).
C2_DuplicateIsNoOp ==
    Len(st_hist[1]) >= 1 =>
        LET h == st_hist[1][1]
        IN /\ ~h.raised
           /\ \A k \in 1..Len(arg[1]) :
                  LET id == arg[1][k].chunk_id
                  IN /\ Cardinality({e \in h.coll : e.chunk_id = id}) = 1
                     /\ RowOf(h.coll, id) =
                            IF chunk_exists(st_entry[1], id)
                            THEN RowOf(st_entry[1], id)
                            ELSE Entry(FirstWithId(arg[1], id))

(***************************************************************************)
(* Properties of the retriever                                             *)
(***************************************************************************)
\* C7: CRAG floor.  Once crag_filter has run on a non-empty list of
\* candidates, whatever their scores and texts, the list it returned holds at
\* least one chunk.
C7_CragFloor ==
    (rt_pc = "rerank" /\ candidates # <<>>) => Len(filtered) >= 1

\* the candidates, scored as crag_filter scores them
ScoredCandidates ==
    [i \in 1..Len(candidates) |-> <<crag_score(candidates[i], query), candidates[i]>>]

\* crag_filter has run on candidates none of which passes even the relaxed
\* thresholds, and it returned some of them
C7_Witness ==
    /\ rt_pc = "rerank"
    /\ Len(candidates) >= 2
    /\ apply_crag_thresholds(ScoredCandidates, CRAG_RELAXED_CORRECT,
                             CRAG_RELAXED_AMBIGUOUS) = <<>>
    /\ Len(filtered) >= 1

\* C8: rerank size.  The list retrieve returns has exactly
\* min(TOP_K, number of chunks that survived CRAG) elements, TOP_K being 5, so
\* it never has more than 5.
C8_RerankSize ==
    rt_pc = "return" =>
        /\ Len(final) = Min(5, Len(filtered))
        /\ Len(final) <= 5

\* more than TOP_K chunks survived CRAG and retrieve returned TOP_K of them
C8_Witness ==
    /\ rt_pc = "return"
    /\ Len(filtered) > TOP_K
    /\ Len(final) = TOP_K

\* C9: filter isolation.  Whatever was ingested, every chunk that
\* retrieve_mmr, crag_filter, rerank and search_filing hand on for a requested
\* company carries that company's id, on the per-year queries and on the
\* company-only fallback query alike.
C9_FilterIsolation ==
    /\ \A i \in 1..Len(candidates) : candidates[i].cik = query.cik
    /\ \A i \in 1..Len(filtered) : filtered[i].cik = query.cik
    /\ \A i \in 1..Len(final) : final[i].cik = query.cik
    /\ \A i \in 1..Len(citations) : citations[i].cik = query.cik

\* search_filing returned chunks found by the company-only fallback query
\* while the index held chunks of another company
C9_Witness ==
    /\ rt_pc = "return"
    /\ used_fallback
    /\ citations # <<>>
    /\ \E e \in collection : e.cik # query.cik

(***************************************************************************)
(* Properties of the cache                                                 *)
(***************************************************************************)
\* C10: cache freshness.  For every table, key and max_age, a get_cached
\* issued after a set_cached of value v on that key returns v while the time
\* elapsed since that set_cached is at most max_age hours and returns None
\* once it is more; the last set_cached on a key decides value and timestamp.
C10_CacheFreshness ==
    (cache_ret.op = "get" /\ <<cache_ret.table, cache_ret.key>> \in DOMAIN put_log) =>
        LET put == put_log[<<cache_ret.table, cache_ret.key>>]
            elapsed == cache_ret.at - put.at
        IN IF elapsed <= TicksPerSecond * SecondsPerHour * cache_ret.max_age
           THEN cache_ret.outcome = "value" /\ cache_ret.value = put.value
           ELSE cache_ret.outcome = "None"

\* the same on the three tables init_db creates: what int(time.time()) alone
\* does to the claim
C10_FreshnessOnCreatedTables ==
    cache_ret.table \in TableNames => C10_CacheFreshness

(***************************************************************************)
(* Properties of _mmr_select, checked under SpecMmr.                       *)
(***************************************************************************)
\* relevance of a candidate to the query of the call
MmrRelevance(c) == Dot(embed_text(c.text), mmr_in.query_embedding)

\* the largest similarity of candidate c to the first k selected candidates
MmrPenalty(c, k) ==
    LET sims == {Dot(embed_text(c.text), embed_text(mmr_out[i].text)) : i \in 1..k}
    IN CHOOSE m \in sims : \A x \in sims : m >= x

\* the candidates as _mmr_select returns them, without their embedding
MmrCandidates ==
    [i \in 1..Len(mmr_in.candidates) |-> PopEmbedding(mmr_in.candidates[i])]

\* the candidates not among the first k selected
MmrRemaining(k) ==
    {MmrCandidates[i] : i \in 1..Len(MmrCandidates)} \ {mmr_out[i] : i \in 1..k}

\* C11: MMR and lambda.  On a candidate list returned by the index query,
\* _mmr_select with lambda = 1 returns the top n_results candidates in
\* descending order of relevance; with lambda = 0 the first selected
\* candidate has the highest relevance and each later one has the smallest
\* maximum similarity to those selected before it.
C11_MmrLambda ==
    mmr_pc = "done" =>
        LET all == MmrRemaining(0)
            n == Min(mmr_in.n_results, Len(mmr_in.candidates))
        IN /\ mmr_in.mmr_lambda = 10 =>
                /\ Len(mmr_out) = n
                /\ \A i \in 1..n : mmr_out[i] \in all
                /\ \A i, j \in 1..n :
                       i < j => /\ mmr_out[i] # mmr_out[j]
                                /\ MmrRelevance(mmr_out[i]) >= MmrRelevance(mmr_out[j])
                /\ \A c \in MmrRemaining(n) : \A i \in 1..n :
                       MmrRelevance(mmr_out[i]) >= MmrRelevance(c)
           /\ mmr_in.mmr_lambda = 0 =>
                /\ Len(mmr_out) = n
                /\ mmr_out[1] \in all
                /\ \A c \in all : MmrRelevance(mmr_out[1]) >= MmrRelevance(c)
                /\ \A k \in 2..n :
                       /\ mmr_out[k] \in MmrRemaining(k - 1)
                       /\ \A c \in MmrRemaining(k - 1) :
                              MmrPenalty(mmr_out[k], k - 1) <= MmrPenalty(c, k - 1)

\* with lambda = 0, _mmr_select returned three candidates in an order that is
\* not the order of the index query
C11_Witness ==
    /\ mmr_pc = "done"
    /\ mmr_in.mmr_lambda = 0
    /\ Len(mmr_out) >= 3
    /\ mmr_out # SubSeq(MmrCandidates, 1, Len(mmr_out))

(***************************************************************************)
(* Properties of retrieve, checked under SpecRetrieve.                     *)
(***************************************************************************)
\* C12: HyDE fallback.  When a step of the query expansion raises,
\* hyde_expand returns the original query, retrieve does not abort and the
\* MMR stage receives the raw query.
C12_HydeFallback ==
    (~query.is_str /\ rt_pc # "hyde") =>
        /\ rt_pc # "raised"
        /\ expanded_query = [emb |-> query.emb]

\* a stage of retrieve starts only when the stage before it has ended, and
\* the call returns from the mmr stage only with no candidates
C13_OrderStep ==
    /\ rt_pc' = "mmr" /\ rt_pc # "mmr" => rt_pc = "hyde"
    /\ rt_pc' = "crag" /\ rt_pc # "crag" => rt_pc = "mmr" /\ candidates' # <<>>
    /\ rt_pc' = "rerank" /\ rt_pc # "rerank" => rt_pc = "crag"
    /\ rt_pc' = "return" /\ rt_pc # "return" =>
           \/ rt_pc = "mmr" /\ candidates' = <<>> /\ final' = <<>>
           \/ rt_pc = "rerank"

\* the CRAG score of a candidate against the raw query, in thousandths
C13_RawScore(c) ==
    (IF query.nkw > 0 THEN (400 * feat[c.text].hits) \div query.nkw ELSE 200)
        + 6 * Max(0, Min(100, Dot(feat[c.text].emb, query.emb)))

\* what the stages have produced: candidates measured against the expanded
\* query, CRAG deciding on the raw query, and no stage after mmr left empty
C13_StageInv ==
    /\ rt_pc \in {"crag", "rerank", "return"} =>
           \A i \in 1..Len(candidates) :
               candidates[i].similarity =
                   Dot(feat[candidates[i].text].emb, query.xemb)
    /\ (rt_pc \in {"rerank", "return"} /\ candidates # <<>>) =>
           /\ Len(filtered) >= 1
           /\ \A i \in 1..Len(candidates) :
                  C13_RawScore(candidates[i]) >= CRAG_CORRECT =>
                      \E j \in 1..Len(filtered) : filtered[j] = candidates[i]
    /\ rt_pc = "return" =>
           /\ (final = <<>>) <=> (candidates = <<>>)
           /\ candidates # <<>> => Len(final) >= 1

\* C13: retrieval state machine.  A retrieve call runs hyde, mmr, crag and
\* rerank in that order; mmr works on the expanded query and crag on the raw
\* query; the call returns [] only when mmr produced no candidates, and
\* once mmr produced a candidate, crag and rerank each output at least one
\* chunk, so the result is not empty.
C13_StateMachine == [][C13_OrderStep]_vars /\ []C13_StageInv

\* retrieve returned a non-empty list after crag_filter dropped a candidate
\* and kept another one untrimmed
C13_Witness ==
    /\ rt_pc = "return"
    /\ Len(filtered) >= 1
    /\ Len(filtered) < Len(candidates)
    /\ \E j \in 1..Len(filtered) : filtered[j].crag_trimmed = Unset
    /\ Len(final) >= 1

(***************************************************************************)
(* Properties of _extract_sections, checked under SpecExtract.             *)
(***************************************************************************)
\* the positions at which a heading of the section occurs
HeadingPositions(s) ==
    {i \in 1..Len(doc) : doc[i].kind = "marker" /\ doc[i].section = s}

\* C14: last match wins.  When the heading of a section occurs more than
\* once in the filing, the extracted section starts at its last occurrence.
C14_LastMatchWins ==
    ex_pc = "done" =>
        \A s \in SectionSet :
            (Cardinality(HeadingPositions(s)) >= 2 /\ sections_out[s] # <<>>) =>
                \A i \in HeadingPositions(s) : sections_out[s][1].start >= i

(***************************************************************************)
(* More properties of the cache, checked under SpecCache.                  *)
(***************************************************************************)
\* C15: cache reads never fail.  On each namespace the callers use,
\* filing_text included, get_cached returns a value or None; a failure of the
\* storage on read is reported as None and never raised to the caller.
C15_CacheReadsNeverFail ==
    cache_ret.op = "get" => cache_ret.outcome \in {"value", "None"}

(***************************************************************************)
(* Properties of search_filing's result, checked under SpecRetrieve.       *)
(***************************************************************************)
\* C17: no raw vectors leave the core.  Every citation search_filing returns
\* has only the fields text, company, company id, year, quarter, filing_type,
\* section, rerank_score and crag_trimmed, and none of embedding, similarity,
\* chunk_id and parent_section, on every path through retrieve.
C17_NoRawVectors ==
    \A i \in 1..Len(citations) :
        /\ DOMAIN citations[i] \subseteq
               {"text", "company", "cik", "year", "quarter", "filing_type",
                "section", "rerank_score", "crag_trimmed"}
        /\ DOMAIN citations[i] \cap
               {"embedding", "similarity", "chunk_id", "parent_section"} = {}

\* search_filing returned the one chunk that rerank passed on unscored
C17_Witness ==
    /\ rt_pc = "return"
    /\ Len(filtered) = 1
    /\ final = filtered
    /\ Len(citations) = 1
    /\ "chunk_id" \in DOMAIN final[1]

(***************************************************************************)
(* Properties of search_filing                                             *)
(***************************************************************************)
\* C16: a search_filing call in which the fetch of the submissions list, of
\* a filing index or of a filing body failed still invokes the retriever
\* and returns; the failure does not leave search_filing
C16_IngestionFailureNotFatal ==
    \A i \in 1..Len(pl_hist) :
        pl_hist[i].call.faults # {}
            => /\ pl_hist[i].outcome = "returned"
               /\ pl_hist[i].call.retrieved

\* the filings the submissions list for year y
UpstreamOfYear(y) == {i \in 1..Len(upstream) : upstream[i].year = y}

\* C18: after a search_filing call that returned with no fetch failing, every
\* target year whose sentinel was absent and for which a filing is available
\* upstream had that filing ingested and has chunks in the index
C18_IngestsMissingYears ==
    \A i \in 1..Len(pl_hist) :
        LET h == pl_hist[i]
        IN (h.outcome = "returned" /\ h.call.faults = {})
              => \A k \in 1..Len(h.call.missing_years) :
                    LET y == h.call.missing_years[k]
                    IN UpstreamOfYear(y) # {}
                          => /\ \E a \in UpstreamOfYear(y) :
                                   \E j \in 1..Len(h.call.ingested) :
                                       h.call.ingested[j] = a
                             /\ \E e \in h.coll_after : e.cik = PlCik /\ e.year = y

\* every chunk of the upstream filing a is a row of coll
FilingIndexed(coll, a) ==
    LET chunks == chunk_filing(IngestResult(upstream[a]))
    IN /\ chunks # <<>>
       /\ \A k \in 1..Len(chunks) : Entry(chunks[k]) \in coll

\* C19: no search_filing call fetches, chunks or hands to the index a filing
\* whose chunks were all in the index when the call began, and a call that
\* repeats a call that returned with no fetch failing ingests nothing and
\* leaves the count of the index unchanged
C19_NeverReingest ==
    \A i \in 1..Len(pl_hist) :
        LET h == pl_hist[i]
        IN /\ \A j \in 1..Len(h.call.chunked) :
                 ~FilingIndexed(h.call.coll_before, h.call.chunked[j])
           /\ \A j \in 1..Len(h.call.fetched) :
                 ~FilingIndexed(h.call.coll_before, h.call.fetched[j])
           /\ (i > 1 /\ pl_hist[i - 1].outcome = "returned"
                  /\ pl_hist[i - 1].call.faults = {}
                  /\ pl_hist[i - 1].call.n = h.call.n)
                 => /\ h.call.ingested = <<>>
                    /\ Count(h.coll_after) = Count(h.call.coll_before)

\* the same, for calls that find the filing_text table in cache.db, where
\* get_cached does not raise
C16_OnCreatedTable ==
    "filing_text" \in DOMAIN db => C16_IngestionFailureNotFatal
C18_OnCreatedTable ==
    "filing_text" \in DOMAIN db => C18_IngestsMissingYears
C19_OnCreatedTable ==
    "filing_text" \in DOMAIN db => C19_NeverReingest

(***************************************************************************)
(* Properties of the index under concurrent callers                        *)
(***************************************************************************)
\* a row leaves the collection only in a clear_company of its company
C20_OnlyClearRemoves ==
    \A e \in collection :
        e \in collection' \/ (last_op'.op = "clear_company" /\ last_op'.cik = e.cik)

\* every row a read has returned since the last clear_company of its
\* company is in the collection: chunk_exists of its id is true and a query
\* whose filter it satisfies ranks it
C20_SeenStaysVisible ==
    \A e \in seen :
        /\ e \in collection
        /\ chunk_exists(collection, e.chunk_id)
        /\ \A year \in {0, e.year} :
              e \in {r \in collection : Matches(r, build_filter(e.cik, year))}

C21_CragAtLeastTwo ==
    (rt_pc = "rerank" /\ Len(candidates) >= 2) => Len(filtered) >= 2

\* the score of candidate i
CragScoreAt(i) == crag_score(candidates[i], query)

CragCorrectAt(i) == CragScoreAt(i) >= CRAG_CORRECT
CragAmbiguousAt(i) == CragScoreAt(i) >= CRAG_AMBIGUOUS /\ CragScoreAt(i) < CRAG_CORRECT

\* the positions of S in increasing order
RECURSIVE Ascending(_)
Ascending(S) ==
    IF S = {} THEN <<>>
    ELSE LET m == CHOOSE x \in S : \A y \in S : x <= y
         IN <<m>> \o Ascending(S \ {m})

\* candidate i as it is to be returned: whole and unflagged when correct,
\* reduced to its sentences with a keyword and flagged when ambiguous
CragExpected(i) ==
    IF CragCorrectAt(i) THEN candidates[i]
    ELSE [candidates[i] EXCEPT !.text = [@ EXCEPT !.sentences = "relevant"],
                               !.crag_trimmed = Set(TRUE)]

\* the candidates at the positions S, in input order, as they are to be returned
CragExpectedList(S) ==
    LET idx == Ascending(S)
    IN [k \in 1..Len(idx) |-> CragExpected(idx[k])]

\* the positions that survive the strict thresholds
StrictSurvivors ==
    {i \in 1..Len(candidates) :
        CragCorrectAt(i)
            \/ (CragAmbiguousAt(i) /\ HasRelevantSentence(candidates[i]))}

\* C22 as stated: when the strict thresholds leave at least two survivors,
\* the result is, in input order, every candidate with score >= 0.7 whole
\* and every candidate with 0.3 <= score < 0.7 trimmed and flagged
C22_ClassificationAsClaimed ==
    (rt_pc = "rerank" /\ Cardinality(StrictSurvivors) >= 2)
        => filtered = CragExpectedList({i \in 1..Len(candidates) :
                                           CragCorrectAt(i) \/ CragAmbiguousAt(i)})

\* C22: when the strict thresholds leave at least two survivors, the result
\* is, in input order, every candidate with score >= 0.7 whole and without
\* crag_trimmed, and every candidate with 0.3 <= score < 0.7 that has a
\* sentence with a query keyword, reduced to those sentences and with
\* crag_trimmed = true; a candidate with score < 0.3, and a candidate with
\* 0.3 <= score < 0.7 none of whose sentences holds a keyword, is absent
C22_Classification ==
    (rt_pc = "rerank" /\ Cardinality(StrictSurvivors) >= 2)
        => /\ filtered = CragExpectedList(StrictSurvivors)
           /\ \A k \in 1..Len(filtered) :
                 filtered[k].crag_trimmed = Set(TRUE)
                     <=> filtered[k].text.sentences = "relevant"

\* crag_filter returned a whole chunk and a trimmed one, and dropped an
\* ambiguous chunk without a keyword and a chunk below 0.3
C22_Witness ==
    /\ rt_pc = "rerank"
    /\ Cardinality(StrictSurvivors) >= 2
    /\ \E i, j, k, l \in 1..Len(candidates) :
          /\ CragCorrectAt(i)
          /\ CragAmbiguousAt(j) /\ HasRelevantSentence(candidates[j])
          /\ CragAmbiguousAt(k) /\ ~HasRelevantSentence(candidates[k])
          /\ CragScoreAt(l) < CRAG_AMBIGUOUS
    /\ \E a, b \in 1..Len(filtered) :
          /\ filtered[a].crag_trimmed = Unset
          /\ filtered[b].crag_trimmed = Set(TRUE)

\* C23: when no candidate survives the relaxed thresholds, crag_filter
\* returns min(3, number of candidates) candidates, each unmodified, and no
\* candidate it left out has a higher score than one it returned
C23_LastResortTopThree ==
    (/\ rt_pc = "rerank"
     /\ candidates # <<>>
     /\ apply_crag_thresholds(ScoredCandidates, CRAG_RELAXED_CORRECT,
                              CRAG_RELAXED_AMBIGUOUS) = <<>>)
        => /\ Len(filtered) = Min(CRAG_FALLBACK, Len(candidates))
           /\ \E S \in SUBSET (1..Len(candidates)) :
                 /\ {filtered[k] : k \in 1..Len(filtered)} = {candidates[i] : i \in S}
                 /\ Cardinality(S) = Len(filtered)
                 /\ \A i \in S, j \in (1..Len(candidates)) \ S :
                       CragScoreAt(i) >= CragScoreAt(j)

(***************************************************************************)
(* Properties of _mmr_select: ties                                         *)
(***************************************************************************)
\* the position in the candidate list of the k-th selected candidate
MmrPick(k) ==
    CHOOSE i \in 1..Len(mmr_in.candidates) : MmrCandidates[i] = mmr_out[k]

\* the candidates selected before round k, and the positions still remaining
MmrSelectedBefore(k) == [j \in 1..(k - 1) |-> mmr_in.candidates[MmrPick(j)]]
MmrRemainingAt(k) ==
    {i \in 1..Len(mmr_in.candidates) : \A j \in 1..(k - 1) : MmrPick(j) # i}

\* the MMR score of candidate i in round k, and its relevance
MmrScoreAt(i, k) ==
    MmrScore(mmr_in.candidates[i], MmrSelectedBefore(k), mmr_in.query_embedding,
             mmr_in.mmr_lambda)
MmrRelAt(i) == Dot(mmr_in.candidates[i].embedding, mmr_in.query_embedding)

\* C24: in every round of _mmr_select on a candidate list returned by the
\* index query, the candidate picked has, among the remaining candidates of
\* the same MMR score, the highest relevance to the query, and among those
\* of the same relevance too the first place in the candidate list
C24_MmrTieBreak ==
    mmr_pc = "done" =>
        \A k \in 1..Len(mmr_out) :
            LET p == MmrPick(k)
            IN \A i \in MmrRemainingAt(k) :
                  /\ MmrScoreAt(p, k) >= MmrScoreAt(i, k)
                  /\ MmrScoreAt(i, k) = MmrScoreAt(p, k)
                        => \/ MmrRelAt(p) > MmrRelAt(i)
                           \/ (MmrRelAt(p) = MmrRelAt(i) /\ p <= i)

\* in some round two remaining candidates of different relevance had the
\* same highest MMR score, and in some round two of the same relevance
C24_Witness ==
    /\ mmr_pc = "done"
    /\ \E k \in 1..Len(mmr_out) : \E i \in MmrRemainingAt(k) :
          /\ i # MmrPick(k)
          /\ MmrScoreAt(i, k) = MmrScoreAt(MmrPick(k), k)
          /\ MmrRelAt(MmrPick(k)) > MmrRelAt(i)
    /\ \E k \in 1..Len(mmr_out) : \E i \in MmrRemainingAt(k) :
          /\ i # MmrPick(k)
          /\ MmrScoreAt(i, k) = MmrScoreAt(MmrPick(k), k)
          /\ MmrRelAt(MmrPick(k)) = MmrRelAt(i)

(***************************************************************************)
(* Properties of retrieve_mmr over several years                           *)
(***************************************************************************)
\* up to N_PER_YEAR raw-similarity candidates of each year from year k on,
\* concatenated: the lists the index queries can give
RECURSIVE UnionRaw(_, _)
UnionRaw(years, k) ==
    IF k > Len(years) THEN {<<>>}
    ELSE { [i \in 1..Len(r) |-> parse_result(r[i], expanded_query.emb)] \o rest :
             r \in QueryOutcomes(collection, expanded_query.emb, N_PER_YEAR,
                                 build_filter(query.cik, years[k])),
             rest \in UnionRaw(years, k + 1) }

\* the orders of the target years
YearOrders ==
    {l \in [1..Len(query.years) -> {query.years[k] : k \in 1..Len(query.years)}] :
        \A i, j \in 1..Len(query.years) : i # j => l[i] # l[j]}

SetOf(list) == {list[i] : i \in 1..Len(list)}

\* C25: with three target years that each hold at least N_PER_YEAR indexed
\* chunks, the candidates retrieve_mmr returns are one MMR selection of
\* n_results = 20 from the concatenation of up to 10 raw-similarity
\* candidates of each year, and the chunks returned do not depend on the
\* order of the year list
C25_MmrOverUnion ==
    (/\ rt_pc = "crag"
     /\ Len(query.years) = Len(UnionYears)
     /\ \A k \in 1..Len(query.years) :
           Cardinality({e \in collection :
                           Matches(e, build_filter(query.cik, query.years[k]))})
               >= N_PER_YEAR)
        => /\ \E raw \in UnionRaw(query.years, 1) :
                 candidates = mmr_select(expanded_query.emb, raw, N_RESULTS, MMR_LAMBDA)
           /\ \A l \in YearOrders :
                 \E out \in retrieve_mmr(collection, expanded_query, query.cik, l) :
                     SetOf(out.cands) = SetOf(candidates)

\* C26: rerank scores.  For every non-empty list handed to rerank, a list of
\* one chunk included, every chunk rerank returns carries a rerank_score that
\* rerank attached, the returned list is in non-increasing order of
\* rerank_score, and the chunks handed in are left as they were (none of them
\* has a rerank_score afterwards).
C26_RerankScores ==
    (rt_pc = "return" /\ filtered # <<>>) =>
        /\ \A i \in 1..Len(final) : final[i].rerank_score # Unset
        /\ \A i \in 1..Len(final) : \A j \in i..Len(final) :
               GetOr(final[i].rerank_score, 0) >= GetOr(final[j].rerank_score, 0)
        /\ \A i \in 1..Len(filtered) : filtered[i].rerank_score = Unset

\* C27: parent_section cap.  For a section text of any length, every chunk
\* the chunker produces carries a parent_section of at most 2000 characters,
\* and so does every row add_chunks builds from such a chunk (a search returns
\* the parent_section of a row as it is stored).
C27_ParentSectionCap ==
    chunk_pc = "done" =>
        \A i \in 1..Len(all_chunks) :
            /\ all_chunks[i].parent_section.chars <= 2000
            /\ Entry(all_chunks[i]).parent_section.chars <= 2000

\* C28: sentinel implies complete ingestion.  Whenever no search_filing call
\* is running, also after an add_chunks call that was left between two of its
\* batches and for a filing with an empty risk_factors section: if the
\* sentinel id of a year is in the index then every chunk of that year's
\* filing is in the index; and a search_filing call that returns, with no
\* fetch failing, after a call that was left between two batches leaves every
\* chunk of the filing in the index.
C28_SentinelImpliesComplete ==
    pl_pc = "idle" =>
        /\ \A a \in 1..Len(upstream) :
              chunk_exists(collection, SentinelId(PlCik, upstream[a].year))
                  => FilingIndexed(collection, a)
        /\ \A i \in 2..Len(pl_hist) :
              (pl_hist[i - 1].outcome = "aborted" /\ pl_hist[i].outcome = "returned"
                  /\ pl_hist[i].call.faults = {})
                  => \A a \in 1..Len(upstream) : FilingIndexed(pl_hist[i].coll_after, a)

\* C29: concurrent ingestion of the same filing.  When two add_chunks calls
\* with the chunks of the same filing interleave in any order, also when both
\* filter before either inserts, then once both have ended neither raised a
\* duplicate-id error, the index holds exactly one row for every chunk_id of
\* the filing, and the index equals the one a single call produces: the rows
\* it held before plus the row of every chunk of the filing.
C29_ConcurrentSameFiling ==
    (\A p \in Callers : st_pc[p] = "done") =>
        /\ \A p \in Callers : \A k \in 1..Len(st_hist[p]) : ~st_hist[p][k].raised
        /\ \A k \in 1..Len(arg[1]) :
              Cardinality({e \in collection : e.chunk_id = arg[1][k].chunk_id}) = 1
        /\ collection = st_entry[1] \cup {Entry(arg[1][k]) : k \in 1..Len(arg[1])}

\* both callers filtered before either inserted, each went through more than
\* one batch, and both have ended
C29_Witness ==
    /\ \A p \in Callers : st_pc[p] = "done"
    /\ new_chunks[1] = new_chunks[2]
    /\ Len(new_chunks[1]) > BatchSize
    /\ st_entry[1] = {}

\* C30: a cached value is served whatever it holds.  After a search_company
\* request has stored its result for a name, a later request for the same
\* name that looks the cache up before that row has expired fetches nothing
\* upstream and writes nothing to the cache, also when the stored result is
\* the empty list of a search with no match.
C30_CachedValueServed ==
    \A i \in 1..Len(tool_log) : \A j \in 1..(i - 1) :
        (/\ tool_log[j].name = tool_log[i].name
         /\ tool_log[j].wrote
         /\ ~Expired(tool_log[i].at, int_time(tool_log[j].stored_at), 24))
            => ~tool_log[i].fetched /\ ~tool_log[i].wrote

====
